---- MODULE Spec2Model ----
(***************************************************************************)
(* Model of the Yahoo! Auctions scraper (JO3QMA/yahoo_auctions_api).       *)
(*                                                                         *)
(* Go strings that the code scans, trims or parses are sequences of        *)
(* one-rune strings (<<"o","p","e","n">> is "open"; a rune the module's      *)
(* lexer rejects is written by its code point, "U+5165"); identifiers the *)
(* code only copies (the auction ID) are plain strings.  A goquery         *)
(* document is the pre-order sequence of its element nodes, each with its  *)
(* depth, tag, id, class and the text it carries directly.                 *)
(***************************************************************************)
EXTENDS Integers, Sequences, FiniteSets, TLC

VARIABLES pc, op, doc, auctionID, data, item, err, calls, now,
          str, price, categoryID, pageNo, backend, requests, page, resp, connectErr,
          repoCalls, scraper, inflight

\* The input and the result of a call of a normalizer.
normVars == <<str, price>>

\* The inputs and the result of a call on a category listing.
listVars == <<categoryID, pageNo, page>>

\* What stands behind the call (the network or a test double), the requests sent,
\* and what the RPC layers return.
rpcVars == <<backend, requests, resp, connectErr, repoCalls>>

\* The scraper instances the calls share, and the local variables of each
\* extraction call that is in progress at the same time as others.
concVars == <<scraper, inflight>>

vars == <<pc, op, doc, auctionID, data, item, err, calls, now, normVars, listVars, rpcVars,
          concVars>>

(***************************************************************************)
(* Bounds of the model.                                                    *)
(***************************************************************************)
MaxImgs == 4

\* The rows of the short listing pages, and how far the long ones lie around a full page.
MaxRows == 2

(***************************************************************************)
(* strings: the parts of Go's strings package the scraper uses.            *)
(***************************************************************************)
Nil == [nil |-> TRUE]

Space == {" ", "\n", "\t"}

RECURSIVE Concat(_)
Concat(ss) == IF ss = <<>> THEN <<>> ELSE Head(ss) \o Concat(Tail(ss))

Upper ==
  <<"A", "B", "C", "D", "E", "F", "G", "H", "I", "J", "K", "L", "M",
    "N", "O", "P", "Q", "R", "S", "T", "U", "V", "W", "X", "Y", "Z">>
Lower ==
  <<"a", "b", "c", "d", "e", "f", "g", "h", "i", "j", "k", "l", "m",
    "n", "o", "p", "q", "r", "s", "t", "u", "v", "w", "x", "y", "z">>

ToLowerRune(c) ==
  IF \E k \in 1..Len(Upper) : Upper[k] = c
  THEN Lower[CHOOSE k \in 1..Len(Upper) : Upper[k] = c] ELSE c

ToLower(s) == [i \in 1..Len(s) |-> ToLowerRune(s[i])]

Contains(s, sub) ==
  \E i \in 0..(Len(s) - Len(sub)) : SubSeq(s, i + 1, i + Len(sub)) = sub

HasPrefix(s, p) == Len(s) >= Len(p) /\ SubSeq(s, 1, Len(p)) = p

HasSuffix(s, p) == Len(s) >= Len(p) /\ SubSeq(s, Len(s) - Len(p) + 1, Len(s)) = p

TrimSuffix(s, p) == IF HasSuffix(s, p) THEN SubSeq(s, 1, Len(s) - Len(p)) ELSE s

TrimSpace(s) ==
  LET keep == {i \in 1..Len(s) : s[i] \notin Space}
  IN  IF keep = {} THEN <<>>
      ELSE LET lo == CHOOSE i \in keep : \A j \in keep : i <= j
               hi == CHOOSE i \in keep : \A j \in keep : j <= i
           IN  SubSeq(s, lo, hi)

(***************************************************************************)
(* time: time.Time as a civil date-time with a zone offset in minutes,     *)
(* and time.Parse(time.RFC3339, s) on the strict "2006-01-02T15:04:05Z07:00"*)
(* shape (the inputs of the model carry no fractional seconds).            *)
(***************************************************************************)
Digits == {"0", "1", "2", "3", "4", "5", "6", "7", "8", "9"}

DigitVal(c) ==
  CASE c = "0" -> 0 [] c = "1" -> 1 [] c = "2" -> 2 [] c = "3" -> 3 [] c = "4" -> 4
    [] c = "5" -> 5 [] c = "6" -> 6 [] c = "7" -> 7 [] c = "8" -> 8 [] c = "9" -> 9

AllDigits(s, a, b) == \A i \in a..b : s[i] \in Digits

RECURSIVE Atoi(_)
Atoi(s) == IF s = <<>> THEN 0 ELSE 10 * Atoi(SubSeq(s, 1, Len(s) - 1)) + DigitVal(s[Len(s)])

ZeroTime == [year |-> 1, month |-> 1, day |-> 1, hour |-> 0, min |-> 0, sec |-> 0, offset |-> 0]

IsLeap(y) == (y % 4 = 0 /\ y % 100 # 0) \/ y % 400 = 0

DaysIn(m, y) ==
  CASE m \in {1, 3, 5, 7, 8, 10, 12} -> 31
    [] m \in {4, 6, 9, 11} -> 30
    [] OTHER -> IF IsLeap(y) THEN 29 ELSE 28

RECURSIVE DaysBeforeMonth(_, _)
DaysBeforeMonth(m, y) == IF m <= 1 THEN 0 ELSE DaysIn(m - 1, y) + DaysBeforeMonth(m - 1, y)

\* Minutes from 0001-01-01T00:00Z to the instant t denotes (seconds kept apart).
Minutes(t) ==
  LET y    == t.year - 1
      days == 365 * y + (y \div 4) - (y \div 100) + (y \div 400)
              + DaysBeforeMonth(t.month, t.year) + (t.day - 1)
  IN  (days * 24 + t.hour) * 60 + t.min - t.offset

IsZero(t) == Minutes(t) = 0 /\ t.sec = 0

Before(a, b) == Minutes(a) < Minutes(b) \/ (Minutes(a) = Minutes(b) /\ a.sec < b.sec)

ParseFail == [ok |-> FALSE, t |-> ZeroTime]

parseRFC3339(s) ==
  LET n == Len(s)
      shape == /\ n \in {20, 25}
               /\ AllDigits(s, 1, 4) /\ s[5] = "-" /\ AllDigits(s, 6, 7) /\ s[8] = "-"
               /\ AllDigits(s, 9, 10) /\ s[11] = "T" /\ AllDigits(s, 12, 13)
               /\ s[14] = ":" /\ AllDigits(s, 15, 16) /\ s[17] = ":"
               /\ AllDigits(s, 18, 19)
               /\ IF n = 20 THEN s[20] = "Z"
                  ELSE /\ s[20] \in {"+", "-"} /\ AllDigits(s, 21, 22)
                       /\ s[23] = ":" /\ AllDigits(s, 24, 25)
  IN  IF ~shape THEN ParseFail
      ELSE LET y  == Atoi(SubSeq(s, 1, 4))
               mo == Atoi(SubSeq(s, 6, 7))
               d  == Atoi(SubSeq(s, 9, 10))
               h  == Atoi(SubSeq(s, 12, 13))
               mi == Atoi(SubSeq(s, 15, 16))
               se == Atoi(SubSeq(s, 18, 19))
               zh == IF n = 20 THEN 0 ELSE Atoi(SubSeq(s, 21, 22))
               zm == IF n = 20 THEN 0 ELSE Atoi(SubSeq(s, 24, 25))
               sg == IF n = 25 /\ s[20] = "-" THEN 0 - 1 ELSE 1
           IN  IF /\ mo \in 1..12 /\ d >= 1 /\ d <= DaysIn(mo, y)
                  /\ h < 24 /\ mi < 60 /\ se < 60 /\ zh < 24 /\ zm < 60
               THEN [ok |-> TRUE,
                     t  |-> [year |-> y, month |-> mo, day |-> d, hour |-> h,
                             min |-> mi, sec |-> se, offset |-> sg * (zh * 60 + zm)]]
               ELSE ParseFail

(***************************************************************************)
(* model: the domain types.                                                *)
(***************************************************************************)
StatusUnspecified == "StatusUnspecified"
StatusActive == "StatusActive"
StatusFinished == "StatusFinished"
StatusCanceled == "StatusCanceled"

NoErr == <<>>

\* fmt.Errorf("msg: %w", cause): the chain of messages, outermost first.
Wrap(msg, cause) == <<msg>> \o cause

(***************************************************************************)
(* encoding/json: a JSON text is modelled by its syntax tree.  k = "syntax"*)
(* is a text that is no JSON value, "null" the literal null, "array" a     *)
(* top-level array, and "object" an object whose member                    *)
(* props.pageProps.initialState.item.detail.item is `item`, a function     *)
(* from the member names present to typed JSON values.                     *)
(***************************************************************************)
JStr(v) == [t |-> "string", v |-> v]
JNum(v) == [t |-> "number", v |-> v]
JBool(v) == [t |-> "bool", v |-> v]
JArr(v) == [t |-> "array", v |-> v]
JObj(v) == [t |-> "object", v |-> v]
JNull == [t |-> "null", v |-> 0]

NextDataZero ==
  [Title |-> <<>>, Price |-> 0, TaxinPrice |-> 0, Status |-> <<>>,
   DescriptionHtml |-> <<>>, InitPrice |-> 0, TaxinStartPrice |-> 0,
   StartTime |-> <<>>, EndTime |-> <<>>, IsEarlyClosing |-> FALSE,
   IsAutomaticExtension |-> FALSE,
   ItemReturnable |-> [Allowed |-> FALSE, Comment |-> <<>>],
   Img |-> <<>>]

\* The json tags of the NextData struct and the JSON type each member decodes from.
NextDataTags ==
  [title |-> "string", price |-> "number", taxinPrice |-> "number", status |-> "string",
   descriptionHtml |-> "string", initPrice |-> "number", taxinStartPrice |-> "number",
   startTime |-> "string", endTime |-> "string", isEarlyClosing |-> "bool",
   isAutomaticExtension |-> "bool", itemReturnable |-> "object", img |-> "array"]

Member(obj, name, zero) ==
  IF name \in DOMAIN obj /\ obj[name].t = NextDataTags[name] THEN obj[name].v ELSE zero

\* A member of the wrong JSON type is an UnmarshalTypeError; null and absent
\* members leave the zero value; unknown members are ignored.
TypeMismatch(obj) ==
  \E name \in DOMAIN obj \cap DOMAIN NextDataTags :
    obj[name].t \notin {"null", NextDataTags[name]}

Unmarshal(json) ==
  CASE json.k = "syntax" -> [data |-> Nil, err |-> <<"invalid character">>]
    [] json.k = "null" -> [data |-> NextDataZero, err |-> NoErr]
    [] json.k = "array" ->
         [data |-> NextDataZero, err |-> <<"cannot unmarshal array into Go value">>]
    [] OTHER ->
         LET obj == json.item
             ret == Member(obj, "itemReturnable", [allowed |-> FALSE, comment |-> <<>>])
         IN  [data |->
                [Title |-> Member(obj, "title", <<>>),
                 Price |-> Member(obj, "price", 0),
                 TaxinPrice |-> Member(obj, "taxinPrice", 0),
                 Status |-> Member(obj, "status", <<>>),
                 DescriptionHtml |-> Member(obj, "descriptionHtml", <<>>),
                 InitPrice |-> Member(obj, "initPrice", 0),
                 TaxinStartPrice |-> Member(obj, "taxinStartPrice", 0),
                 StartTime |-> Member(obj, "startTime", <<>>),
                 EndTime |-> Member(obj, "endTime", <<>>),
                 IsEarlyClosing |-> Member(obj, "isEarlyClosing", FALSE),
                 IsAutomaticExtension |-> Member(obj, "isAutomaticExtension", FALSE),
                 ItemReturnable |-> [Allowed |-> ret.allowed, Comment |-> ret.comment],
                 Img |-> Member(obj, "img", <<>>)],
              err |-> IF TypeMismatch(obj)
                      THEN <<"cannot unmarshal into Go struct field">> ELSE NoErr]

(***************************************************************************)
(* goquery: a document is the pre-order sequence of its element nodes.     *)
(***************************************************************************)
NoAttr == [a \in {} |-> <<>>]

Node(depth, tag, id, class, text) ==
  [depth |-> depth, tag |-> tag, id |-> id, class |-> class, text |-> text,
   attr |-> NoAttr, json |-> Nil]

\* The nodes of the subtree rooted at node i (i and its descendants).
Subtree(d, i) ==
  LET after == {k \in (i + 1)..Len(d) : d[k].depth <= d[i].depth}
  IN  i..((IF after = {} THEN Len(d) + 1 ELSE CHOOSE k \in after : \A x \in after : k <= x) - 1)

RECURSIVE TextOf(_, _, _)
TextOf(d, sel, i) ==
  IF \A k \in sel : k < i THEN <<>>
  ELSE (IF i \in sel THEN d[i].text ELSE <<>>) \o TextOf(d, sel, i + 1)

\* The text of node i with its descendants.
NodeText(d, i) == TextOf(d, Subtree(d, i), i)

RECURSIVE TextFrom(_, _, _)
TextFrom(d, sel, i) ==
  IF \A k \in sel : k < i THEN <<>>
  ELSE IF i \in sel THEN NodeText(d, i) \o TextFrom(d, sel, i + 1)
  ELSE TextFrom(d, sel, CHOOSE k \in sel : k > i /\ \A x \in sel : x > i => k <= x)

\* Selection.Text: the texts of the selected nodes, one after the other.
Text(d, sel) == TextFrom(d, sel, 1)

\* Selection.First.
First(sel) == IF sel = {} THEN {} ELSE {CHOOSE i \in sel : \A j \in sel : i <= j}

\* Document.Text.
DocText(d) == TextOf(d, 1..Len(d), 1)

ID_NEXT_DATA == <<"_", "_", "N", "E", "X", "T", "_", "D", "A", "T", "A", "_", "_">>

\* script#__NEXT_DATA__
IsNextDataScript(n) == n.tag = "script" /\ n.id = ID_NEXT_DATA

(***************************************************************************)
(* yahooScraper.parseNextData                                              *)
(***************************************************************************)
parseNextData(d) ==
  LET sel == {i \in 1..Len(d) : IsNextDataScript(d[i])}
      scriptContent == Text(d, sel)
  IN  IF scriptContent = <<>>
      THEN [data |-> Nil, err |-> <<"next data script not found">>]
      ELSE LET r == Unmarshal(d[CHOOSE i \in sel : d[i].text # <<>>].json)
           IN  IF r.err # NoErr
               THEN [data |-> Nil, err |-> Wrap("failed to unmarshal next data", r.err)]
               ELSE [data |-> r.data, err |-> NoErr]

(***************************************************************************)
(* yahooScraper.extractItemFromJSON                                        *)
(***************************************************************************)
\* A variant that tells images apart by the whole entry (URL, width, height).
RECURSIVE DedupImages_entries(_, _, _)
DedupImages_entries(img, seenURLs, images) ==
  IF img = <<>> THEN images
  ELSE IF Head(img) \notin seenURLs
       THEN DedupImages_entries(Tail(img), seenURLs \cup {Head(img)},
                                Append(images, Head(img).image))
       ELSE DedupImages_entries(Tail(img), seenURLs, images)

RECURSIVE DedupImages(_, _, _)
DedupImages(img, seenURLs, images) ==
  IF img = <<>> THEN images
  ELSE IF Head(img).image \notin seenURLs
       THEN DedupImages(Tail(img), seenURLs \cup {Head(img).image},
                        Append(images, Head(img).image))
       ELSE DedupImages(Tail(img), seenURLs, images)

\* A variant that matches the status after trimming and lower-casing it.
StatusFromJSON_folded(status) ==
  LET folded == ToLower(TrimSpace(status))
  IN  CASE folded = <<"o", "p", "e", "n">> -> StatusActive
        [] folded = <<"c", "l", "o", "s", "e", "d">> -> StatusFinished
        [] folded = <<"c", "a", "n", "c", "e", "l">> -> StatusCanceled
        [] folded = <<"c", "a", "n", "c", "e", "l", "e", "d">> -> StatusCanceled
        [] OTHER -> StatusUnspecified

StatusFromJSON(status) ==
  CASE status = <<"o", "p", "e", "n">> -> StatusActive
    [] status = <<"c", "l", "o", "s", "e", "d">> -> StatusFinished
    [] status = <<"c", "a", "n", "c", "e", "l">> -> StatusCanceled
    [] status = <<"c", "a", "n", "c", "e", "l", "e", "d">> -> StatusCanceled
    [] OTHER -> StatusUnspecified

\* A variant that takes the tax-included price whenever it is not negative.
CurrentPriceFromJSON_nonNegative(itemData) ==
  IF itemData.TaxinPrice >= 0 THEN itemData.TaxinPrice ELSE itemData.Price

CurrentPriceFromJSON(itemData) ==
  IF itemData.TaxinPrice > 0 THEN itemData.TaxinPrice ELSE itemData.Price

\* A variant that chooses the start price by the test made for the current price.
StartPriceFromJSON_coupled(itemData) ==
  IF itemData.TaxinPrice > 0 THEN itemData.TaxinStartPrice ELSE itemData.InitPrice

StartPriceFromJSON(itemData) ==
  IF itemData.TaxinStartPrice > 0 THEN itemData.TaxinStartPrice ELSE itemData.InitPrice

TimeFromJSON(s) == LET r == parseRFC3339(s) IN IF r.ok THEN r.t ELSE ZeroTime

\* A variant that parses the end time only after the start time has parsed.
extractItemFromJSON_nested(itemData, id) ==
  [AuctionID |-> id,
   Title |-> itemData.Title,
   Description |-> itemData.DescriptionHtml,
   CurrentPrice |-> CurrentPriceFromJSON(itemData),
   ShippingFee |-> 0,
   Images |-> DedupImages(itemData.Img, {}, <<>>),
   Status |-> StatusFromJSON(itemData.Status),
   AuctionInfo |->
     [AuctionID |-> id,
      EarlyEnd |-> itemData.IsEarlyClosing,
      AutoExtension |-> itemData.IsAutomaticExtension,
      Returnable |-> itemData.ItemReturnable.Allowed,
      ReturnableDetail |-> itemData.ItemReturnable.Comment,
      StartPrice |-> StartPriceFromJSON(itemData),
      StartTime |-> TimeFromJSON(itemData.StartTime),
      EndTime |-> IF parseRFC3339(itemData.StartTime).ok
                  THEN TimeFromJSON(itemData.EndTime) ELSE ZeroTime]]

extractItemFromJSON(itemData, id) ==
  [AuctionID |-> id,
   Title |-> itemData.Title,
   Description |-> itemData.DescriptionHtml,
   CurrentPrice |-> CurrentPriceFromJSON(itemData),
   ShippingFee |-> 0,
   Images |-> DedupImages(itemData.Img, {}, <<>>),
   Status |-> StatusFromJSON(itemData.Status),
   AuctionInfo |->
     [AuctionID |-> id,
      EarlyEnd |-> itemData.IsEarlyClosing,
      AutoExtension |-> itemData.IsAutomaticExtension,
      Returnable |-> itemData.ItemReturnable.Allowed,
      ReturnableDetail |-> itemData.ItemReturnable.Comment,
      StartPrice |-> StartPriceFromJSON(itemData),
      StartTime |-> TimeFromJSON(itemData.StartTime),
      EndTime |-> TimeFromJSON(itemData.EndTime)]]

(***************************************************************************)
(* regexp: the scanning primitives the scraper's patterns are built from.  *)
(***************************************************************************)
Min(S) == CHOOSE x \in S : \A y \in S : x <= y
Max(S) == CHOOSE x \in S : \A y \in S : y <= x

\* \s of Go's regexp.
ReSpace == {" ", "\t", "\n", "\f", "\r"}

\* The first index at or after i whose rune is outside class C (Len(s) + 1 if none).
SkipClass(s, i, C) ==
  LET stops == {j \in i..Len(s) : s[j] \notin C}
  IN  IF stops = {} THEN Len(s) + 1 ELSE Min(stops)

\* The first index at or after i whose rune is in class C (Len(s) + 1 if none).
SkipUntil(s, i, C) ==
  LET stops == {j \in i..Len(s) : s[j] \in C}
  IN  IF stops = {} THEN Len(s) + 1 ELSE Min(stops)

\* sub occurs in s at index i.
At(s, i, sub) == i >= 1 /\ i + Len(sub) - 1 <= Len(s) /\ SubSeq(s, i, i + Len(sub) - 1) = sub

ReplaceAllRune(s, c) == SelectSeq(s, LAMBDA x : x # c)

\* \d{1,2} followed by the rune lit, at index i: the index after lit, or 0.
Num12Then(s, i, lit) ==
  IF i + 2 <= Len(s) /\ s[i] \in Digits /\ s[i + 1] \in Digits /\ s[i + 2] = lit THEN i + 3
  ELSE IF i + 1 <= Len(s) /\ s[i] \in Digits /\ s[i + 1] = lit THEN i + 2
  ELSE 0

ImageHost == <<"a", "u", "c", "t", "i", "o", "n", "s", ".", "c", ".", "y", "i", "m", "g", ".", "j", "p">>
ID_otherInfo == <<"o", "t", "h", "e", "r", "I", "n", "f", "o">>
ID_OtherInfo == <<"O", "t", "h", "e", "r", "I", "n", "f", "o">>
C_ProductTitle == <<"P", "r", "o", "d", "u", "c", "t", "T", "i", "t", "l", "e", "_", "_", "t", "e", "x", "t">>
C_yaProductTitle == <<"y", "a", "P", "r", "o", "d", "u", "c", "t", "T", "i", "t", "l", "e">>
Suffix == <<" ", "-", " ", "ヤ", "フ", "オ", "ク", "!">>  \* " - ヤフオク!"

(***************************************************************************)
(* Text literals of the heuristic scraper.                                 *)
(***************************************************************************)
K_cancel == <<"キ", "ャ", "ン", "セ", "ル">>  \* キャンセル
K_torikeshi == <<"取", "り", "消", "U+3057">>  \* 取り消し
K_bidSuru == <<"U+5165", "U+672D", "U+3059", "る">>  \* 入札する
K_bid == <<"U+5165", "U+672D">>  \* 入札
K_muryo == <<"U+7121", "料">>  \* 無料
K_free == <<"f", "r", "e", "e">>  \* free
L_startPrice == <<"開", "始", "U+6642", "U+306E", "価", "U+683C">>  \* 開始時の価格
L_startTime == <<"開", "始", "日", "U+6642">>  \* 開始日時
L_endTime == <<"U+7D42", "了", "日", "U+6642">>  \* 終了日時
L_earlyEnd == <<"早", "U+671F", "U+7D42", "了">>  \* 早期終了
L_autoExtension == <<"自", "動", "延", "U+9577">>  \* 自動延長
L_auctionID == <<"オ", "ー", "ク", "シ", "ョ", "ン", "I", "D">>  \* オークションID
L_returnable == <<"返", "品", "U+306E", "可", "U+5426">>  \* 返品の可否
K_ari == <<"U+3042", "り">>  \* あり
K_henpinKa == <<"返", "品", "可">>  \* 返品可
K_henpinKano == <<"返", "品", "可", "能">>  \* 返品可能
K_genzai == <<"現", "U+5728">>  \* 現在
K_soryo == <<"U+9001", "料">>  \* 送料
K_haisoryo == <<"U+914D", "U+9001", "料">>  \* 配送料
R_yen == "円"  \* 円
R_nen == "U+5E74"  \* 年
R_gatsu == "U+6708"  \* 月
R_nichi == "日"  \* 日
R_ji == "U+6642"  \* 時
R_fun == "U+5206"  \* 分
R_shu == "U+7D42"  \* 終
R_ryo == "了"  \* 了

finishedKeywords ==
  <<<<"U+7D42", "了", "U+6E08", "U+307F">>,
    <<"U+843D", "U+672D", "U+6E08", "U+307F">>,
    <<"U+3053", "U+306E", "オ", "ー", "ク", "シ", "ョ", "ン", "U+306F", "U+7D42", "了", "U+3057", "U+307E", "U+3057", "U+305F">>,
    <<"オ", "ー", "ク", "シ", "ョ", "ン", "U+306F", "U+7D42", "了", "U+3057", "U+307E", "U+3057", "U+305F">>,
    <<"U+7D42", "了", "U+3057", "U+307E", "U+3057", "U+305F">>,
    <<"U+843D", "U+672D", "U+3055", "れ", "U+307E", "U+3057", "U+305F">>,
    <<"U+6642", "間", "U+5207", "れ">>>>
\* 終了済み, 落札済み, このオークションは終了しました, オークションは終了しました, 終了しました, 落札されました, 時間切れ

(***************************************************************************)
(* parsePrice (heuristic scraper): "1,000" followed by the yen sign gives  *)
(* 1000, a no-charge text gives 0.                                         *)
(***************************************************************************)
MaxInt64Digits == <<"9", "2", "2", "3", "3", "7", "2", "0", "3", "6", "8", "5", "4", "7", "7", "5", "8", "0", "7">>

RECURSIVE DropZeros(_)
DropZeros(s) == IF s # <<>> /\ Head(s) = "0" THEN DropZeros(Tail(s)) ELSE s

RECURSIVE DigitsLess(_, _)
DigitsLess(a, b) ==
  IF a = <<>> THEN FALSE
  ELSE IF DigitVal(Head(a)) # DigitVal(Head(b)) THEN DigitVal(Head(a)) < DigitVal(Head(b))
  ELSE DigitsLess(Tail(a), Tail(b))

\* strconv.ParseInt(s, 10, 64) on a text of digits: a syntax error on the empty
\* text, a range error above 2^63 - 1.
ParseInt(s) ==
  LET z == DropZeros(s)
  IN  IF s = <<>> THEN [ok |-> FALSE, v |-> 0]
      ELSE IF Len(z) > Len(MaxInt64Digits)
              \/ (Len(z) = Len(MaxInt64Digits) /\ DigitsLess(MaxInt64Digits, z))
      THEN [ok |-> FALSE, v |-> 0]
      ELSE [ok |-> TRUE, v |-> Atoi(z)]

parsePrice(text) ==
  IF text = <<>> THEN 0
  ELSE LET lowerText == ToLower(text)
       IN  IF Contains(lowerText, K_muryo) \/ Contains(lowerText, K_free) THEN 0
           ELSE LET from == SkipUntil(text, 1, Digits \cup {","})
                    to   == SkipClass(text, from, Digits \cup {","})
                IN  IF from > Len(text) THEN 0
                    ELSE LET priceStr == ReplaceAllRune(SubSeq(text, from, to - 1), ",")
                             r == ParseInt(priceStr)
                         IN  IF r.ok THEN r.v ELSE 0

(***************************************************************************)
(* parseDateTime                                                           *)
(***************************************************************************)
\* The pattern \s*\([^)]+\)\s* at the head of s: the length it matches, or 0.
WeekdayAt(s) ==
  LET open == SkipClass(s, 1, ReSpace)
  IN  IF open > Len(s) \/ s[open] # "(" THEN 0
      ELSE LET close == SkipUntil(s, open + 2, {")"})
           IN  IF open + 1 > Len(s) \/ s[open + 1] = ")" \/ close > Len(s) THEN 0
               ELSE SkipClass(s, close + 1, ReSpace) - 1

RECURSIVE StripWeekday(_)
StripWeekday(s) ==
  IF s = <<>> THEN <<>>
  ELSE LET m == WeekdayAt(s)
       IN  IF m > 0 THEN <<" ">> \o StripWeekday(SubSeq(s, m + 1, Len(s)))
           ELSE <<Head(s)>> \o StripWeekday(Tail(s))

\* time.Parse's range checks on the fields read; the result is in UTC.
CivilTime(y, mo, d, h, mi) ==
  IF mo \in 1..12 /\ d >= 1 /\ d <= DaysIn(mo, y) /\ h < 24 /\ mi < 60
  THEN [ok |-> TRUE,
        t |-> [year |-> y, month |-> mo, day |-> d, hour |-> h, min |-> mi,
               sec |-> 0, offset |-> 0]]
  ELSE ParseFail

\* time.Parse(layout, value) for a layout given as its chunks: "2006" is the
\* four-digit year, "1" "2" "15" "4" read one or two digits, "01" "02" "04"
\* exactly two, " " skips a run of spaces and any other chunk is a literal rune.
\* f collects the fields read so far.
RECURSIVE ParseLayout(_, _, _)
ParseLayout(layout, value, f) ==
  IF layout = <<>>
  THEN IF value = <<>> THEN CivilTime(f.year, f.month, f.day, f.hour, f.min) ELSE ParseFail
  ELSE LET c == Head(layout)
           field == CASE c \in {"1", "01"} -> "month" [] c \in {"2", "02"} -> "day"
                      [] c = "15" -> "hour" [] OTHER -> "min"
       IN  CASE c = "2006" ->
                  IF Len(value) >= 4 /\ AllDigits(value, 1, 4)
                  THEN ParseLayout(Tail(layout), SubSeq(value, 5, Len(value)),
                                   [f EXCEPT !.year = Atoi(SubSeq(value, 1, 4))])
                  ELSE ParseFail
             [] c \in {"1", "2", "15", "4"} ->
                  IF value = <<>> \/ Head(value) \notin Digits THEN ParseFail
                  ELSE LET n == IF Len(value) >= 2 /\ value[2] \in Digits THEN 2 ELSE 1
                       IN  ParseLayout(Tail(layout), SubSeq(value, n + 1, Len(value)),
                                       [f EXCEPT ![field] = Atoi(SubSeq(value, 1, n))])
             [] c \in {"01", "02", "04"} ->
                  IF Len(value) >= 2 /\ AllDigits(value, 1, 2)
                  THEN ParseLayout(Tail(layout), SubSeq(value, 3, Len(value)),
                                   [f EXCEPT ![field] = Atoi(SubSeq(value, 1, 2))])
                  ELSE ParseFail
             [] c = " " ->
                  IF value # <<>> /\ Head(value) # " " THEN ParseFail
                  ELSE ParseLayout(Tail(layout),
                                   SubSeq(value, SkipClass(value, 1, {" "}), Len(value)), f)
             [] OTHER ->
                  IF value # <<>> /\ Head(value) = c
                  THEN ParseLayout(Tail(layout), Tail(value), f)
                  ELSE ParseFail

NoFields == [year |-> 0, month |-> 0, day |-> 0, hour |-> 0, min |-> 0]

formats ==
  <<<<"2006", R_nen, "1", R_gatsu, "2", R_nichi, " ", "15", R_ji, "4", R_fun>>,
    <<"2006", R_nen, "01", R_gatsu, "02", R_nichi, " ", "15", R_ji, "04", R_fun>>,
    <<"2006", R_nen, "1", R_gatsu, "2", R_nichi, "15", R_ji, "4", R_fun>>,
    <<"2006", R_nen, "01", R_gatsu, "02", R_nichi, "15", R_ji, "04", R_fun>>,
    <<"2006", R_nen, "1", R_gatsu, "2", R_nichi, " ", "15", ":", "04">>,
    <<"2006", R_nen, "01", R_gatsu, "02", R_nichi, " ", "15", ":", "04">>>>

\* (\d{4})Y(\d{1,2})M(\d{1,2})D[^\d]*(\d{1,2})h(\d{1,2})m matched at index i of s:
\* the fields and the index after the match, or ok = FALSE.
DatePatternAt(s, i) ==
  LET a == IF i + 4 <= Len(s) /\ AllDigits(s, i, i + 3) /\ s[i + 4] = R_nen THEN i + 5 ELSE 0
      b == IF a = 0 THEN 0 ELSE Num12Then(s, a, R_gatsu)
      c == IF b = 0 THEN 0 ELSE Num12Then(s, b, R_nichi)
      h == IF c = 0 THEN 0 ELSE SkipUntil(s, c, Digits)
      e == IF c = 0 THEN 0 ELSE Num12Then(s, h, R_ji)
      g == IF e = 0 THEN 0 ELSE Num12Then(s, e, R_fun)
  IN  IF g = 0 THEN [ok |-> FALSE]
      ELSE [ok |-> TRUE, end |-> g,
            year |-> Atoi(SubSeq(s, i, i + 3)), month |-> Atoi(SubSeq(s, a, b - 2)),
            day |-> Atoi(SubSeq(s, b, c - 2)), hour |-> Atoi(SubSeq(s, h, e - 2)),
            min |-> Atoi(SubSeq(s, e, g - 2))]

RECURSIVE TryFormats(_, _)
TryFormats(fs, text) ==
  IF fs = <<>> THEN ParseFail
  ELSE LET r == ParseLayout(Head(fs), text, NoFields)
       IN  IF r.ok THEN r ELSE TryFormats(Tail(fs), text)

parseDateTime(text0) ==
  IF text0 = <<>> THEN ParseFail
  ELSE LET text == StripWeekday(text0)
           r == TryFormats(formats, text)
       IN  IF r.ok THEN r
           ELSE LET hits == {i \in 1..Len(text) : DatePatternAt(text, i).ok}
                IN  IF hits = {} THEN ParseFail
                    ELSE LET m == DatePatternAt(text, Min(hits))
                         IN  CivilTime(m.year, m.month, m.day, m.hour, m.min)

(***************************************************************************)
(* Selectors of the heuristic scraper.                                     *)
(***************************************************************************)
RECURSIVE Fields(_)
\* strings.Fields on spaces: the class names of a class attribute.
Fields(s) ==
  LET from == SkipClass(s, 1, Space)
      to   == SkipUntil(s, from, Space)
  IN  IF from > Len(s) THEN {}
      ELSE {SubSeq(s, from, to - 1)} \cup Fields(SubSeq(s, to, Len(s)))

HasClass(n, c) == c \in Fields(n.class)

Ancestors(d, j) ==
  {i \in 1..(j - 1) : \A k \in (i + 1)..j : d[k].depth > d[i].depth}

Descendants(d, sel) == UNION {Subtree(d, i) \ {i} : i \in sel}

\* "h1.ProductTitle__text, h1.yaProductTitle, h1"
IsTitleHeading(n) ==
  \/ n.tag = "h1" /\ HasClass(n, C_ProductTitle)
  \/ n.tag = "h1" /\ HasClass(n, C_yaProductTitle)
  \/ n.tag = "h1"

IsTitleTag(n) == n.tag = "title"

\* "button, a"
IsButtonOrLink(n) == n.tag \in {"button", "a"}

(***************************************************************************)
(* yahooScraper.isAuctionFinished                                          *)
(***************************************************************************)
HasBidControl(d) ==
  \E i \in {i \in 1..Len(d) : IsButtonOrLink(d[i])} :
    LET text == ToLower(NodeText(d, i))
    IN  Contains(text, K_bidSuru) \/ Contains(text, K_bid)

\* A variant that decides on the finished keywords alone.
isAuctionFinished_keywordsOnly(d, lowerText) ==
  \E k \in 1..Len(finishedKeywords) : Contains(lowerText, ToLower(finishedKeywords[k]))

isAuctionFinished(d, lowerText) ==
  IF HasBidControl(d) THEN FALSE
  ELSE \E k \in 1..Len(finishedKeywords) : Contains(lowerText, ToLower(finishedKeywords[k]))

\* The status block of the heuristic extractItemInfo.
HasCancelKeyword(lowerText) ==
  Contains(lowerText, K_cancel) \/ Contains(lowerText, K_torikeshi)

\* A variant that looks for the bid control before the cancellation keywords.
HeuristicStatus_bidFirst(d) ==
  LET lowerText == ToLower(DocText(d))
  IN  IF HasBidControl(d) THEN StatusActive
      ELSE IF HasCancelKeyword(lowerText) THEN StatusCanceled
      ELSE IF isAuctionFinished(d, lowerText) THEN StatusFinished
      ELSE StatusActive

HeuristicStatus(d) ==
  LET lowerText == ToLower(DocText(d))
  IN  IF HasCancelKeyword(lowerText) THEN StatusCanceled
      ELSE IF isAuctionFinished(d, lowerText) THEN StatusFinished
      ELSE StatusActive

\* The title block of the heuristic extractItemInfo.
HeuristicTitle(d) ==
  LET title == TrimSpace(Text(d, First({i \in 1..Len(d) : IsTitleHeading(d[i])})))
  IN  IF title = <<>>
      THEN TrimSpace(TrimSuffix(Text(d, {i \in 1..Len(d) : IsTitleTag(d[i])}), Suffix))
      ELSE title

(***************************************************************************)
(* yahooScraper.extractAuctionInformation                                  *)
(***************************************************************************)
\* "#otherInfo", else "[id*='otherInfo'], [class*='otherInfo'], [id*='OtherInfo'],
\* [class*='OtherInfo']"
OtherInfoRegion(d) ==
  LET byID == {i \in 1..Len(d) : d[i].id = ID_otherInfo}
  IN  IF byID # {} THEN byID
      ELSE {i \in 1..Len(d) : \/ Contains(d[i].id, ID_otherInfo)
                               \/ Contains(d[i].class, ID_otherInfo)
                               \/ Contains(d[i].id, ID_OtherInfo)
                               \/ Contains(d[i].class, ID_OtherInfo)}

\* otherInfo.Find("table tr"), in document order.
TableRows(d, otherInfo) ==
  {j \in Descendants(d, otherInfo) :
     d[j].tag = "tr" /\ \E t \in Ancestors(d, j) : d[t].tag = "table"}

InfoZero(id) ==
  [AuctionID |-> id, StartPrice |-> 0, StartTime |-> ZeroTime, EndTime |-> ZeroTime,
   EarlyEnd |-> FALSE, AutoExtension |-> FALSE, Returnable |-> FALSE,
   ReturnableDetail |-> <<>>]

IsReturnable(value) == Contains(value, K_henpinKa) \/ Contains(value, K_henpinKano)

\* A variant that stores the affirmative phrase alone for an affirmative value.
TableRowFields_phraseOnly(info, label, value, t) ==
  [info EXCEPT
     !.StartPrice = IF Contains(label, L_startPrice) THEN parsePrice(value) ELSE @,
     !.StartTime = IF Contains(label, L_startTime) /\ t.ok THEN t.t ELSE @,
     !.EndTime = IF Contains(label, L_endTime) /\ t.ok THEN t.t ELSE @,
     !.EarlyEnd = IF Contains(label, L_earlyEnd) THEN Contains(value, K_ari) ELSE @,
     !.AutoExtension = IF Contains(label, L_autoExtension) THEN Contains(value, K_ari) ELSE @,
     !.Returnable = IF Contains(label, L_returnable) THEN IsReturnable(value) ELSE @,
     !.ReturnableDetail = IF Contains(label, L_returnable)
                          THEN (IF IsReturnable(value) THEN K_henpinKa ELSE value) ELSE @]

\* The assignments of the Each callback on one table row with a label and a value;
\* t is parseDateTime(value).  Each if of the callback sets fields of its own.
TableRowFields(info, label, value, t) ==
  [info EXCEPT
     !.StartPrice = IF Contains(label, L_startPrice) THEN parsePrice(value) ELSE @,
     !.StartTime = IF Contains(label, L_startTime) /\ t.ok THEN t.t ELSE @,
     !.EndTime = IF Contains(label, L_endTime) /\ t.ok THEN t.t ELSE @,
     !.EarlyEnd = IF Contains(label, L_earlyEnd) THEN Contains(value, K_ari) ELSE @,
     !.AutoExtension = IF Contains(label, L_autoExtension) THEN Contains(value, K_ari) ELSE @,
     !.Returnable = IF Contains(label, L_returnable) THEN IsReturnable(value) ELSE @,
     !.ReturnableDetail = IF Contains(label, L_returnable) THEN value ELSE @]

\* The body of the Each callback on one table row.
TableRow(d, tr, info) ==
  LET th == {j \in Subtree(d, tr) \ {tr} : d[j].tag = "th"}
      td == {j \in Subtree(d, tr) \ {tr} : d[j].tag = "td"}
      label == TrimSpace(Text(d, First(th)))
      value == TrimSpace(Text(d, First(td)))
  IN  IF th = {} \/ td = {} \/ label = <<>> \/ value = <<>> THEN info
      ELSE TableRowFields(info, label, value, parseDateTime(value))

RECURSIVE TablePassFrom(_, _, _, _)
TablePassFrom(d, rows, j, info) ==
  IF j > Len(d) THEN info
  ELSE TablePassFrom(d, rows, j + 1, IF j \in rows THEN TableRow(d, j, info) ELSE info)

\* A variant that takes the auction id from the page's auction id row, if it has one.
TablePass_pageID(d, id) ==
  LET rows == TableRows(d, OtherInfoRegion(d))
      own == {tr \in rows : \E j \in Subtree(d, tr) : d[j].tag = "th" /\ d[j].text = L_auctionID}
  IN  TablePassFrom(d, rows, 1, InfoZero(IF own = {} THEN id ELSE "z9999999999"))

TablePass(d, id) == TablePassFrom(d, TableRows(d, OtherInfoRegion(d)), 1, InfoZero(id))

\* The leftmost index where label occurs in s followed, after \s*, by an index
\* of follows (the indices where the rest of the pattern matches); 0 if none.
LabelMatch(s, label, follows) ==
  LET hits == {i \in 1..Len(s) :
                 At(s, i, label) /\ SkipClass(s, i + Len(label), ReSpace) \in follows}
  IN  IF hits = {} THEN 0 ELSE Min(hits)

\* ([0-9,]+)\s*<yen> at index k: the index of the yen sign, or 0.
AmountEnd(s, k) ==
  LET to == SkipClass(s, k, Digits \cup {","})
      y  == SkipClass(s, to, ReSpace)
  IN  IF to > k /\ y <= Len(s) /\ s[y] = R_yen THEN y ELSE 0

\* The whole match of <label>\s*([0-9,]+)\s*<yen> in s, or <<>>.
AmountMatch(s, label) ==
  LET i == LabelMatch(s, label, {k \in 1..Len(s) : AmountEnd(s, k) > 0})
  IN  IF i = 0 THEN <<>>
      ELSE SubSeq(s, i, AmountEnd(s, SkipClass(s, i + Len(label), ReSpace)))

\* The end of (\d{4}Y\d{1,2}M\d{1,2}D[^<shu><ryo>]*\d{1,2}h\d{1,2}m) matched at
\* index k, taking the longest run the greedy [^...]* allows; 0 if no match.
DateSpanEnd(s, k) ==
  LET a == IF k + 4 <= Len(s) /\ AllDigits(s, k, k + 3) /\ s[k + 4] = R_nen THEN k + 5 ELSE 0
      b == IF a = 0 THEN 0 ELSE Num12Then(s, a, R_gatsu)
      c == IF b = 0 THEN 0 ELSE Num12Then(s, b, R_nichi)
      limit == IF c = 0 THEN 0 ELSE SkipUntil(s, c, {R_shu, R_ryo})
      after(h) == LET m == Num12Then(s, h, R_ji)
                  IN  IF m = 0 THEN 0 ELSE Num12Then(s, m, R_fun)
      ends == IF c = 0 THEN {}
              ELSE {after(h) - 1 : h \in {x \in c..limit : x <= Len(s) /\ after(x) > 0}}
  IN  IF ends = {} THEN 0 ELSE Max(ends)

\* The text the date pattern captures after label, or <<>>.
DateCapture(s, label) ==
  LET i == LabelMatch(s, label, {k \in 1..Len(s) : DateSpanEnd(s, k) > 0})
      k == SkipClass(s, i + Len(label), ReSpace)
  IN  IF i = 0 THEN <<>> ELSE SubSeq(s, k, DateSpanEnd(s, k))

\* <label>\s*<ari> occurs in s.
HasAri(s, label) == LabelMatch(s, label, {k \in 1..Len(s) : At(s, k, K_ari)}) > 0

\* <label>\s*([^\n]+): the captured text, or <<>> when there is no match.  The
\* greedy \s* gives back spaces when nothing but a line end follows it.
ReturnCapture(s) ==
  LET starts(i) == {k \in (i + Len(L_returnable))..SkipClass(s, i + Len(L_returnable), ReSpace) :
                      k <= Len(s) /\ s[k] # "\n"}
      hits == {i \in 1..Len(s) : At(s, i, L_returnable) /\ starts(i) # {}}
  IN  IF hits = {} THEN <<>>
      ELSE LET k == Max(starts(Min(hits)))
           IN  SubSeq(s, k, SkipUntil(s, k, {"\n"}) - 1)

\* The regular-expression pass over otherInfoText, the text of the region, after
\* the table pass.  Each if of the pass tests and sets fields of its own.
RescueFields(info, otherInfoText) ==
  LET pm == AmountMatch(otherInfoText, L_startPrice)
      st == parseDateTime(DateCapture(otherInfoText, L_startTime))
      et == parseDateTime(DateCapture(otherInfoText, L_endTime))
      rc == ReturnCapture(otherInfoText)
      rescued == info.ReturnableDetail = <<>> /\ rc # <<>>
  IN  [info EXCEPT
         !.StartPrice = IF @ = 0 /\ pm # <<>> THEN parsePrice(pm) ELSE @,
         !.StartTime = IF IsZero(@) /\ st.ok THEN st.t ELSE @,
         !.EndTime = IF IsZero(@) /\ et.ok THEN et.t ELSE @,
         !.EarlyEnd = IF ~@ THEN HasAri(otherInfoText, L_earlyEnd) ELSE @,
         !.AutoExtension = IF ~@ THEN HasAri(otherInfoText, L_autoExtension) ELSE @,
         !.Returnable = IF rescued THEN IsReturnable(TrimSpace(rc)) ELSE @,
         !.ReturnableDetail = IF rescued THEN TrimSpace(rc) ELSE @]

RescuePass(d, info) == RescueFields(info, Text(d, OtherInfoRegion(d)))

extractAuctionInformation(d, id) == RescuePass(d, TablePass(d, id))

(***************************************************************************)
(* yahooScraper.isThumbnailImage and yahooScraper.extractImageURLs         *)
(***************************************************************************)
AttrOr(n, name) == IF name \in DOMAIN n.attr THEN n.attr[name] ELSE <<>>

thumbnailKeywords ==
  <<<<"t", "h", "u", "m", "b">>, <<"t", "h", "u", "m", "b", "n", "a", "i", "l">>, <<"_", "s">>, <<"_", "m">>, <<"_", "x", "s">>,
    <<"/", "s", "/">>, <<"/", "t", "h", "u", "m", "b", "/">>, <<"s", "i", "z", "e", "=", "s">>, <<"s", "i", "z", "e", "=", "m">>>>

\* [sm]\d+x\d+ occurs in s.
HasSizeToken(s) ==
  \E i \in 1..Len(s) :
    /\ s[i] \in {"s", "m"}
    /\ LET x == SkipClass(s, i + 1, Digits)
       IN  x > i + 1 /\ x < Len(s) /\ s[x] = "x" /\ s[x + 1] \in Digits

isThumbnailImage(url) ==
  LET lowerURL == ToLower(url)
  IN  \/ \E k \in 1..Len(thumbnailKeywords) : Contains(lowerURL, thumbnailKeywords[k])
      \/ HasSizeToken(lowerURL)

\* src, else data-src, else data-lazy-src.
ImageAttr(n) ==
  IF AttrOr(n, "src") # <<>> THEN AttrOr(n, "src")
  ELSE IF AttrOr(n, "data-src") # <<>> THEN AttrOr(n, "data-src")
  ELSE AttrOr(n, "data-lazy-src")

\* Protocol-relative and root-relative URLs made absolute.
AbsoluteURL(url) ==
  IF HasPrefix(url, <<"/", "/">>) THEN <<"h", "t", "t", "p", "s", ":">> \o url
  ELSE IF HasPrefix(url, <<"/">>) THEN <<"h", "t", "t", "p", "s", ":", "/", "/", "a", "u", "c", "t", "i", "o", "n", "s", ".", "y", "a", "h", "o", "o", ".", "c", "o", ".", "j", "p">> \o url
  ELSE url

UnderClass(d, j, c) == \E a \in Ancestors(d, j) : HasClass(d[a], c)
UnderClassLike(d, j, c) == \E a \in Ancestors(d, j) : Contains(d[a].class, c)

\* The k-th entry of the selectors list, as a test on node j.
ImageSelector(k, d, j) ==
  /\ d[j].tag = "img"
  /\ CASE k = 1 -> UnderClass(d, j, <<"P", "r", "o", "d", "u", "c", "t", "I", "m", "a", "g", "e">>)
       [] k = 2 -> UnderClass(d, j, <<"P", "r", "o", "d", "u", "c", "t", "I", "m", "a", "g", "e", "_", "_", "m", "a", "i", "n">>)
       [] k = 3 -> UnderClass(d, j, <<"y", "a", "P", "r", "o", "d", "u", "c", "t", "I", "m", "a", "g", "e">>)
       [] k = 4 -> UnderClass(d, j, <<"p", "r", "o", "d", "u", "c", "t", "I", "m", "a", "g", "e">>)
       [] k = 5 -> UnderClassLike(d, j, <<"P", "r", "o", "d", "u", "c", "t", "I", "m", "a", "g", "e">>)
       [] k = 6 -> UnderClassLike(d, j, <<"p", "r", "o", "d", "u", "c", "t", "I", "m", "a", "g", "e">>)
       [] k = 7 -> UnderClassLike(d, j, <<"I", "m", "a", "g", "e">>)
       [] k = 8 -> Contains(AttrOr(d[j], "src"), ImageHost)
       [] OTHER -> Contains(AttrOr(d[j], "data-src"), ImageHost)

NumImageSelectors == 9

\* The Each callback of the selector loop over the nodes sel from index j on.
RECURSIVE CollectImages(_, _, _, _)
CollectImages(d, sel, j, imageURLs) ==
  IF j > Len(d) THEN imageURLs
  ELSE LET raw == ImageAttr(d[j])
           url == AbsoluteURL(TrimSpace(raw))
           keep == /\ j \in sel /\ raw # <<>> /\ ~isThumbnailImage(url)
                   /\ url # <<>> /\ \A x \in 1..Len(imageURLs) : imageURLs[x] # url
       IN  CollectImages(d, sel, j + 1, IF keep THEN Append(imageURLs, url) ELSE imageURLs)

\* The Each callback of the all-images scan.
RECURSIVE CollectFallbackImages(_, _, _)
CollectFallbackImages(d, j, imageURLs) ==
  IF j > Len(d) THEN imageURLs
  ELSE LET raw == ImageAttr(d[j])
           url == AbsoluteURL(TrimSpace(raw))
           keep == /\ d[j].tag = "img" /\ raw # <<>>
                   /\ (Contains(raw, ImageHost) \/ Contains(raw, <<"y", "a", "h", "o", "o", ".", "c", "o", ".", "j", "p">>))
                   /\ ~Contains(url, <<"l", "o", "g", "o">>) /\ ~Contains(url, <<"i", "c", "o", "n">>)
                   /\ ~Contains(url, <<"a", "v", "a", "t", "a", "r">>)
                   /\ ~isThumbnailImage(url)
                   /\ url # <<>> /\ \A x \in 1..Len(imageURLs) : imageURLs[x] # url
       IN  CollectFallbackImages(d, j + 1, IF keep THEN Append(imageURLs, url) ELSE imageURLs)

RECURSIVE TryImageSelectors(_, _)
TryImageSelectors(d, k) ==
  IF k > NumImageSelectors THEN <<>>
  ELSE LET got == CollectImages(d, {j \in 1..Len(d) : ImageSelector(k, d, j)}, 1, <<>>)
       IN  IF got # <<>> THEN got ELSE TryImageSelectors(d, k + 1)

extractImageURLs(d) ==
  LET imageURLs == TryImageSelectors(d, 1)
  IN  IF imageURLs = <<>> THEN CollectFallbackImages(d, 1, <<>>) ELSE imageURLs

(***************************************************************************)
(* yahooScraper.extractDescriptionFromJSON and the description block       *)
(***************************************************************************)
extractDescriptionFromJSON(d) ==
  LET sel == {i \in 1..Len(d) : IsNextDataScript(d[i])}
      scriptContent == Text(d, sel)
      json == d[CHOOSE i \in sel : d[i].text # <<>>].json
  IN  IF scriptContent = <<>> THEN <<>>
      ELSE IF json.k # "object" THEN <<>>
      ELSE IF "descriptionHtml" \notin DOMAIN json.item THEN <<>>
      ELSE IF json.item["descriptionHtml"].t # "string" THEN <<>>
      ELSE json.item["descriptionHtml"].v

\* html.Render of a text node.
EscapeRune(c) ==
  CASE c = "&" -> <<"&", "a", "m", "p", ";">> [] c = "<" -> <<"&", "l", "t", ";">> [] c = ">" -> <<"&", "g", "t", ";">>
    [] c = "'" -> <<"&", "#", "3", "9", ";">> [] c = "\"" -> <<"&", "#", "3", "4", ";">> [] c = "\r" -> <<"&", "#", "1", "3", ";">>
    [] OTHER -> <<c>>

RECURSIVE Escape(_)
Escape(s) == IF s = <<>> THEN <<>> ELSE EscapeRune(Head(s)) \o Escape(Tail(s))

TagName(tag) ==
  CASE tag = "p" -> <<"p">> [] tag = "b" -> <<"b">> [] tag = "div" -> <<"d", "i", "v">>
    [] tag = "span" -> <<"s", "p", "a", "n">> [] tag = "br" -> <<"b", "r">>
    [] tag = "img" -> <<"i", "m", "g">> [] OTHER -> <<"x">>

AttrText(name, v) == IF v = <<>> THEN <<>> ELSE <<" ">> \o name \o <<"=", "\"">> \o Escape(v) \o <<"\"">>

Children(d, i) == {j \in Subtree(d, i) : d[j].depth = d[i].depth + 1}

\* Selection.Html: the markup inside node i.  Elements render their id, class
\* and src attributes; br and img have no end tag.
RECURSIVE InnerHTML(_, _)
RECURSIVE OuterHTMLFrom(_, _, _)
OuterHTMLFrom(d, kids, j) ==
  IF j > Len(d) THEN <<>>
  ELSE (IF j \in kids
        THEN <<"<">> \o TagName(d[j].tag) \o AttrText(<<"i", "d">>, d[j].id)
               \o AttrText(<<"c", "l", "a", "s", "s">>, d[j].class)
               \o AttrText(<<"s", "r", "c">>, AttrOr(d[j], "src")) \o <<">">>
               \o (IF d[j].tag \in {"br", "img"} THEN <<>>
                   ELSE InnerHTML(d, j) \o <<"<", "/">> \o TagName(d[j].tag) \o <<">">>)
        ELSE <<>>) \o OuterHTMLFrom(d, kids, j + 1)
InnerHTML(d, i) == Escape(d[i].text) \o OuterHTMLFrom(d, Children(d, i), i + 1)

\* "#description section > div"
IsDescriptionDiv(d, j) ==
  /\ d[j].tag = "div"
  /\ \E sec \in Ancestors(d, j) :
       /\ d[sec].tag = "section" /\ d[sec].depth = d[j].depth - 1
       /\ \E a \in Ancestors(d, sec) : d[a].id = <<"d", "e", "s", "c", "r", "i", "p", "t", "i", "o", "n">>

HeuristicDescription(d) ==
  LET description == extractDescriptionFromJSON(d)
      sel == First({j \in 1..Len(d) : IsDescriptionDiv(d, j)})
  IN  IF description # <<>> THEN description
      ELSE IF sel = {} THEN <<>>
      ELSE TrimSpace(InnerHTML(d, CHOOSE j \in sel : TRUE))

(***************************************************************************)
(* The price and shipping blocks of the heuristic extractItemInfo.         *)
(***************************************************************************)
\* ".Price__value, .yaPrice, .price, [class*='Price'], [class*='price']"
IsPriceNode(n) ==
  \/ HasClass(n, <<"P", "r", "i", "c", "e", "_", "_", "v", "a", "l", "u", "e">>)
  \/ HasClass(n, <<"y", "a", "P", "r", "i", "c", "e">>) \/ HasClass(n, <<"p", "r", "i", "c", "e">>)
  \/ Contains(n.class, <<"P", "r", "i", "c", "e">>) \/ Contains(n.class, <<"p", "r", "i", "c", "e">>)

\* ".ShippingFee__value, .shippingFee, .shipping"
IsShippingNode(n) ==
  \/ HasClass(n, <<"S", "h", "i", "p", "p", "i", "n", "g", "F", "e", "e", "_", "_", "v", "a", "l", "u", "e">>)
  \/ HasClass(n, <<"s", "h", "i", "p", "p", "i", "n", "g", "F", "e", "e">>)
  \/ HasClass(n, <<"s", "h", "i", "p", "p", "i", "n", "g">>)

HasDigit(s) == \E i \in 1..Len(s) : s[i] \in Digits

\* Text naming the current price: the label, the yen sign and a digit.
LooksLikePrice(text) == Contains(text, K_genzai) /\ Contains(text, <<R_yen>>) /\ HasDigit(text)

\* strings.Split(s, "\n")
RECURSIVE Lines(_)
Lines(s) ==
  LET nl == SkipUntil(s, 1, {"\n"})
  IN  IF nl > Len(s) THEN <<s>>
      ELSE <<SubSeq(s, 1, nl - 1)>> \o Lines(SubSeq(s, nl + 1, Len(s)))

PriceBySelector(d) == TrimSpace(Text(d, First({i \in 1..Len(d) : IsPriceNode(d[i])})))

PriceByPattern(d) == AmountMatch(DocText(d), K_genzai)

\* A variant that takes the last matching element.
PriceByElementScan_last(d) ==
  LET hits == {j \in 1..Len(d) : LooksLikePrice(TrimSpace(NodeText(d, j)))}
  IN  IF hits = {} THEN <<>> ELSE TrimSpace(NodeText(d, Max(hits)))

PriceByElementScan(d) ==
  LET hits == {j \in 1..Len(d) : LooksLikePrice(TrimSpace(NodeText(d, j)))}
  IN  IF hits = {} THEN <<>> ELSE TrimSpace(NodeText(d, Min(hits)))

PriceByLineScan(d) ==
  LET lines == Lines(DocText(d))
      hits == {k \in 1..Len(lines) : LooksLikePrice(TrimSpace(lines[k]))}
  IN  IF hits = {} THEN <<>> ELSE TrimSpace(lines[Min(hits)])

HeuristicPriceText(d) ==
  LET s1 == PriceBySelector(d)
      s2 == PriceByPattern(d)
      s3 == PriceByElementScan(d)
  IN  IF s1 # <<>> THEN s1
      ELSE IF s2 # <<>> THEN s2
      ELSE IF s3 # <<>> THEN s3
      ELSE PriceByLineScan(d)

HeuristicShippingText(d) ==
  LET shippingText == TrimSpace(Text(d, First({i \in 1..Len(d) : IsShippingNode(d[i])})))
      hits == {j \in 1..Len(d) : \/ Contains(NodeText(d, j), K_soryo)
                                 \/ Contains(NodeText(d, j), K_haisoryo)}
  IN  IF shippingText # <<>> THEN shippingText
      ELSE IF hits = {} THEN <<>>
      ELSE NodeText(d, Max(hits))

(***************************************************************************)
(* yahooScraper.extractItemInfo (heuristic version): the Item, the error   *)
(* and the scraper methods the call ran, in order.                         *)
(***************************************************************************)
\* The Item the heuristic extractItemInfo builds once it has a title.
HeuristicItem(d, id, title) ==
  [AuctionID |-> id,
   Title |-> title,
   Description |-> HeuristicDescription(d),
   CurrentPrice |-> parsePrice(HeuristicPriceText(d)),
   ShippingFee |-> parsePrice(HeuristicShippingText(d)),
   Images |-> extractImageURLs(d),
   Status |-> HeuristicStatus(d),
   AuctionInfo |-> extractAuctionInformation(d, id)]

HeuristicCalls(d) ==
  <<"extractImageURLs", "extractDescriptionFromJSON">>
    \o (IF HasCancelKeyword(ToLower(DocText(d))) THEN <<>> ELSE <<"isAuctionFinished">>)
    \o <<"extractAuctionInformation">>

\* A variant that skips the title check and returns the Item whatever its title.
HeuristicExtractItemInfo_untitled(d, id) ==
  [item |-> HeuristicItem(d, id, HeuristicTitle(d)), err |-> NoErr,
   calls |-> HeuristicCalls(d)]

HeuristicExtractItemInfo(d, id) ==
  LET title == HeuristicTitle(d)
  IN  IF title = <<>>
      THEN [item |-> Nil,
            err |-> <<"item title not found - page structure may have changed">>,
            calls |-> <<>>]
      ELSE [item |-> HeuristicItem(d, id, title), err |-> NoErr,
            calls |-> HeuristicCalls(d)]

(***************************************************************************)
(* yahooScraper.extractItemInfo (JSON-first version): the Item, the error  *)
(* and the scraper methods the call ran, in order.                         *)
(***************************************************************************)
\* A variant that runs the heuristic extractor when the payload cannot be had.
extractItemInfo_fallback(d, id) ==
  LET r == parseNextData(d)
      h == HeuristicExtractItemInfo(d, id)
  IN  IF r.err # NoErr
      THEN [item |-> h.item, err |-> h.err, nextData |-> Nil,
            calls |-> <<"parseNextData">> \o h.calls]
      ELSE [item |-> extractItemFromJSON(r.data, id), err |-> NoErr,
            nextData |-> r.data, calls |-> <<"parseNextData", "extractItemFromJSON">>]

\* A variant that lets the status block of the heuristic extractor overrule the
\* payload's status.
extractItemInfo_reclassify(d, id) ==
  LET r == parseNextData(d)
  IN  IF r.err # NoErr
      THEN [item |-> Nil, err |-> Wrap("failed to parse next data", r.err),
            nextData |-> Nil, calls |-> <<"parseNextData">>]
      ELSE [item |-> [extractItemFromJSON(r.data, id) EXCEPT !.Status = HeuristicStatus(d)],
            err |-> NoErr, nextData |-> r.data,
            calls |-> <<"parseNextData", "extractItemFromJSON">>]

extractItemInfo(d, id) ==
  LET r == parseNextData(d)
  IN  IF r.err # NoErr
      THEN [item |-> Nil, err |-> Wrap("failed to parse next data", r.err),
            nextData |-> Nil, calls |-> <<"parseNextData">>]
      ELSE [item |-> extractItemFromJSON(r.data, id), err |-> NoErr,
            nextData |-> r.data, calls |-> <<"parseNextData", "extractItemFromJSON">>]

(***************************************************************************)
(* Inputs: auction IDs, clock readings, payloads and documents.            *)
(***************************************************************************)
AuctionIDs == {"x1234567890", "b0000000001"}

T_start == <<"2", "0", "2", "5", "-", "1", "2", "-", "2", "9", "T", "1", "6", ":", "0", "0", ":", "1", "0", "+", "0", "9", ":", "0", "0">>
T_end == <<"2", "0", "2", "5", "-", "1", "2", "-", "3", "0", "T", "1", "6", ":", "0", "0", ":", "1", "0", "+", "0", "9", ":", "0", "0">>
T_badMonth == <<"2", "0", "2", "5", "-", "1", "3", "-", "2", "9", "T", "1", "6", ":", "0", "0", ":", "1", "0", "+", "0", "9", ":", "0", "0">>
T_utc == <<"2", "0", "2", "5", "-", "1", "2", "-", "2", "9", "T", "0", "7", ":", "0", "0", ":", "1", "0", "Z">>
T_notATime == <<"n", "o", "t", "-", "a", "-", "t", "i", "m", "e">>

TimeTexts == {<<>>, T_notATime, T_start, T_end, T_badMonth, T_utc}

Clock ==
  {[year |-> 2025, month |-> 12, day |-> 1, hour |-> 0, min |-> 0, sec |-> 0, offset |-> 540],
   [year |-> 2026, month |-> 1, day |-> 15, hour |-> 0, min |-> 0, sec |-> 0, offset |-> 540]}

S_open == <<"o", "p", "e", "n">>
S_closed == <<"c", "l", "o", "s", "e", "d">>
S_cancel == <<"c", "a", "n", "c", "e", "l">>
S_canceled == <<"c", "a", "n", "c", "e", "l", "e", "d">>

StatusTexts ==
  {S_open, S_closed, S_cancel, S_canceled, <<>>, <<"?", "?", "?">>, <<"O", "p", "e", "n">>, <<"O", "P", "E", "N">>,
   <<" ", "o", "p", "e", "n">>, <<"o", "p", "e", "n", " ">>, <<"c", "a", "n", "c", "e", "l", "l", "e", "d">>, <<"c", "l", "o", "s", "e">>}

URL_A == <<"/", "/", "a", "/", "1", ".", "j", "p", "g">>
URL_B == <<"/", "/", "a", "/", "2", ".", "j", "p", "g">>
URL_C == <<"/", "/", "a", "/", "3", ".", "j", "p", "g">>

ImgEntries ==
  {[image |-> URL_A, width |-> 1, height |-> 1],
   [image |-> URL_A, width |-> 640, height |-> 480],
   [image |-> URL_B, width |-> 1, height |-> 1],
   [image |-> URL_C, width |-> 1, height |-> 1]}

ImgLists == UNION {[1..n -> ImgEntries] : n \in 0..MaxImgs}

Prices == {0 - 5, 0, 100, 999, 1234}
StartPrices == {0 - 1, 0, 1, 111, 200}

NextDataBase ==
  [Title |-> <<"t", "i", "t", "l", "e">>, Price |-> 100, TaxinPrice |-> 1234, Status |-> S_open,
   DescriptionHtml |-> <<"<", "p", ">", "d", "<", "/", "p", ">">>, InitPrice |-> 1, TaxinStartPrice |-> 200,
   StartTime |-> T_start, EndTime |-> T_end, IsEarlyClosing |-> TRUE,
   IsAutomaticExtension |-> FALSE,
   ItemReturnable |-> [Allowed |-> TRUE, Comment |-> <<"d", "e", "t", "a", "i", "l">>],
   Img |-> <<[image |-> URL_A, width |-> 1, height |-> 1],
             [image |-> URL_A, width |-> 1, height |-> 1],
             [image |-> URL_B, width |-> 1, height |-> 1]>>]

NextDatas ==
     {[NextDataBase EXCEPT !.Status = s, !.StartTime = a, !.EndTime = b] :
        s \in StatusTexts, a \in TimeTexts, b \in TimeTexts}
  \cup {[NextDataBase EXCEPT !.Price = p, !.TaxinPrice = q, !.InitPrice = u,
                             !.TaxinStartPrice = v] :
        p \in Prices, q \in Prices, u \in StartPrices, v \in StartPrices}
  \cup {[NextDataBase EXCEPT !.Img = l, !.Title = t] : l \in ImgLists, t \in {<<>>, <<"t", "i", "t", "l", "e">>}}
  \cup {[NextDataZero EXCEPT !.IsEarlyClosing = e, !.IsAutomaticExtension = x,
                             !.ItemReturnable = [Allowed |-> w, Comment |-> c],
                             !.StartTime = a, !.EndTime = b] :
        e \in BOOLEAN, x \in BOOLEAN, w \in BOOLEAN, c \in {<<>>, <<"d", "e", "t", "a", "i", "l">>},
        a \in {<<>>, T_notATime, T_utc}, b \in {<<>>, T_notATime, T_utc}}

\* The JSON object of a payload, and the text of a JSON syntax tree as far as
\* the scraper's text scans can tell: its punctuation and its string members.
ToJSON(nd) ==
  [title |-> JStr(nd.Title), price |-> JNum(nd.Price), taxinPrice |-> JNum(nd.TaxinPrice),
   status |-> JStr(nd.Status), descriptionHtml |-> JStr(nd.DescriptionHtml),
   initPrice |-> JNum(nd.InitPrice), taxinStartPrice |-> JNum(nd.TaxinStartPrice),
   startTime |-> JStr(nd.StartTime), endTime |-> JStr(nd.EndTime),
   isEarlyClosing |-> JBool(nd.IsEarlyClosing),
   isAutomaticExtension |-> JBool(nd.IsAutomaticExtension),
   itemReturnable |-> JObj([allowed |-> nd.ItemReturnable.Allowed,
                            comment |-> nd.ItemReturnable.Comment]),
   img |-> JArr(nd.Img)]

Only(obj, names) == [n \in names |-> obj[n]]

StringMembers == <<"title", "status", "descriptionHtml", "startTime", "endTime">>

RECURSIVE MembersText(_, _)
MembersText(obj, names) ==
  IF names = <<>> THEN <<>>
  ELSE (IF Head(names) \in DOMAIN obj /\ obj[Head(names)].t = "string"
        THEN <<"\"">> \o obj[Head(names)].v \o <<"\"", ",">> ELSE <<>>)
       \o MembersText(obj, Tail(names))

JSONText(json) == <<"{">> \o MembersText(json.item, StringMembers) \o <<"}">>

ScriptNode(text, json) ==
  [Node(2, "script", ID_NEXT_DATA, <<>>, text) EXCEPT !.json = json]

ObjectScript(obj) ==
  LET json == [k |-> "object", item |-> obj] IN ScriptNode(JSONText(json), json)

CancelInDescription == [NextDataBase EXCEPT !.DescriptionHtml = <<"<", "p", ">", "キ", "ャ", "ン", "セ", "ル", "U+4E0D", "可", "<", "/", "p", ">">>, !.Status = S_closed]

PayloadObjects ==
  {ToJSON(NextDataBase),
   ToJSON([NextDataBase EXCEPT !.Title = <<>>]),
   ToJSON([NextDataBase EXCEPT !.Status = S_closed, !.StartTime = T_notATime]),
   ToJSON([NextDataBase EXCEPT !.Status = <<"?", "?", "?">>, !.TaxinPrice = 0, !.TaxinStartPrice = 0]),
   ToJSON(CancelInDescription),
   Only(ToJSON(NextDataBase), {}),
   Only(ToJSON(NextDataBase), {"title", "price"}),
   [ToJSON(NextDataBase) EXCEPT !.price = JStr(<<"1", "0", "0">>)],
   [ToJSON(NextDataBase) EXCEPT !.img = JObj(<<>>)],
   [ToJSON(NextDataBase) EXCEPT !.title = JNull, !.taxinPrice = JNull]}

\* The script#__NEXT_DATA__ element of a page: none, or one with this content.
Scripts ==
     {<<>>,
      <<ScriptNode(<<>>, [k |-> "syntax"])>>,
      <<ScriptNode(<<" ", "\n">>, [k |-> "syntax"])>>,
      <<ScriptNode(<<"{", "i", "n", "v", "a", "l", "i", "d", " ", "j", "s", "o", "n", "}">>, [k |-> "syntax"])>>,
      <<ScriptNode(<<"n", "u", "l", "l">>, [k |-> "null"])>>,
      <<ScriptNode(<<"[", "]">>, [k |-> "array"])>>}
  \cup {<<ObjectScript(obj)>> : obj \in PayloadObjects}

\* Texts of the pages.
X_titleTag == <<"U+5546", "品", "A", " ", "-", " ", "ヤ", "フ", "オ", "ク", "!">>
  \* 商品A - ヤフオク!
X_blank == <<" ", "\n", " ">>
  \*  \n 
X_h1 == <<" ", "U+5546", "品", "A", " ">>
  \*  商品A 
X_canceled == <<"U+3053", "U+306E", "オ", "ー", "ク", "シ", "ョ", "ン", "U+306F", "キ", "ャ", "ン", "セ", "ル", "U+3055", "れ", "U+307E", "U+3057", "U+305F">>
  \* このオークションはキャンセルされました
X_withdrawn == <<"出", "品", "U+8005", "U+306B", "よ", "り", "取", "り", "消", "U+3057", "U+3055", "れ", "U+307E", "U+3057", "U+305F">>
  \* 出品者により取り消しされました
X_ended == <<"U+3053", "U+306E", "オ", "ー", "ク", "シ", "ョ", "ン", "U+306F", "U+7D42", "了", "U+3057", "U+307E", "U+3057", "U+305F">>
  \* このオークションは終了しました
X_sold == <<"U+843D", "U+672D", "U+6E08", "U+307F">>
  \* 落札済み
X_endDate == <<"U+7D42", "了", "日", "U+6642", " ", "1", "2", "U+6708", "3", "0", "日">>
  \* 終了日時 12月30日
X_expiredCanceled == <<"U+6642", "間", "U+5207", "れ", " ", "キ", "ャ", "ン", "セ", "ル">>
  \* 時間切れ キャンセル
X_bidNow == <<"U+5165", "U+672D", "U+3059", "る">>
  \* 入札する
X_bidLink == <<"今", "U+3059", "U+3050", "U+5165", "U+672D">>
  \* 今すぐ入札
X_watch == <<"ウ", "ォ", "ッ", "チ">>
  \* ウォッチ
X_start == <<"2", "0", "2", "5", "U+5E74", "1", "2", "U+6708", "2", "9", "日", "U+FF08", "U+6708", "U+FF09", "1", "6", "U+6642", "0", "U+5206">>
  \* 2025年12月29日（月）16時0分
X_startAscii == <<"2", "0", "2", "5", "U+5E74", "1", "2", "U+6708", "2", "9", "日", " ", "(", "U+6708", ")", " ", "1", "6", "U+6642", "0", "5", "U+5206">>
  \* 2025年12月29日 (月) 16時05分
X_end == <<"2", "0", "2", "5", "U+5E74", "1", "2", "U+6708", "3", "0", "日", "U+FF08", "U+706B", "U+FF09", "1", "6", "U+6642", "0", "U+5206">>
  \* 2025年12月30日（火）16時0分
X_endColon == <<"2", "0", "2", "5", "U+5E74", "1", "2", "U+6708", "3", "0", "日", " ", "1", "6", ":", "0", "0">>
  \* 2025年12月30日 16:00
X_undecided == <<"U+672A", "定">>
  \* 未定
X_badMonth == <<"2", "0", "2", "5", "U+5E74", "1", "3", "U+6708", "2", "9", "日", " ", "1", "6", "U+6642", "0", "U+5206">>
  \* 2025年13月29日 16時0分
X_1000yen == <<"1", ",", "0", "0", "0", "円">>
  \* 1,000円
X_0yen == <<"0", "円">>
  \* 0円
X_ari == <<"U+3042", "り">>
  \* あり
X_nashi == <<"U+306A", "U+3057">>
  \* なし
X_returnOK == <<"返", "品", "可", "U+FF08", "U+5230", "U+7740", "後", "7", "日", "以", "内", "U+FF09">>
  \* 返品可（到着後7日以内）
X_returnNG == <<"返", "品", "U+4E0D", "可">>
  \* 返品不可
X_price == <<"2", "2", ",", "0", "0", "0", "円">>
  \* 22,000円
X_currentLine == <<"現", "U+5728", " ", "2", "2", ",", "0", "0", "0", "円", "U+FF08", "U+7A0E", "込", "U+FF09">>
  \* 現在 22,000円（税込）
X_freeShipping == <<"U+9001", "料", "U+7121", "料">>
  \* 送料無料
X_shipping500 == <<"U+9001", "料", " ", "5", "0", "0", "円">>
  \* 送料 500円
X_descText == <<"状", "U+614B", " ", "A", " ", "&", " ", "B">>
  \* 状態 A & B
X_rescueText == <<"開", "始", "U+6642", "U+306E", "価", "U+683C", " ", "5", "0", "0", " ", "円", "\n", "開", "始", "日", "U+6642", " ", "2", "0", "2", "5", "U+5E74", "1", "2", "U+6708", "2", "9", "日", "U+FF08", "U+6708", "U+FF09", "1", "6", "U+6642", "0", "U+5206", "\n", "U+7D42", "了", "日", "U+6642", " ", "2", "0", "2", "5", "U+5E74", "1", "2", "U+6708", "3", "0", "日", "U+FF08", "U+706B", "U+FF09", "1", "6", "U+6642", "0", "U+5206", "\n", "早", "U+671F", "U+7D42", "了", " ", "U+3042", "り", "\n", "自", "動", "延", "U+9577", " ", "U+306A", "U+3057", "\n", "返", "品", "U+306E", "可", "U+5426", " ", "返", "品", "U+4E0D", "可", "\n">>
  \* 開始時の価格 500 円\n開始日時 2025年12月29日（月）16時0分\n終了日時 2025年12月30日（火）16時0分\n早期終了 あり\n自動延長 なし\n返品の可否 返品不可\n
X_rescueReturnOK == <<"返", "品", "U+306E", "可", "U+5426", "\n", " ", "返", "品", "可", "U+FF08", "U+5230", "U+7740", "後", "7", "日", "以", "内", "U+FF09", " ", "\n", "早", "U+671F", "U+7D42", "了", " ", "U+306A", "U+3057", "\n">>
  \* 返品の可否\n 返品可（到着後7日以内） \n早期終了 なし\n
X_rescueReturnBlank == <<"返", "品", "U+306E", "可", "U+5426", " ">>
  \* the label followed by one space
U_full == <<"h", "t", "t", "p", "s", ":", "/", "/", "a", "u", "c", "t", "i", "o", "n", "s", ".", "c", ".", "y", "i", "m", "g", ".", "j", "p", "/", "i", "/", "a", ".", "j", "p", "g">>
  \* https://auctions.c.yimg.jp/i/a.jpg
U_rel == <<"/", "/", "a", "u", "c", "t", "i", "o", "n", "s", ".", "c", ".", "y", "i", "m", "g", ".", "j", "p", "/", "i", "/", "b", ".", "j", "p", "g">>
  \* //auctions.c.yimg.jp/i/b.jpg
U_thumb == <<"h", "t", "t", "p", "s", ":", "/", "/", "a", "u", "c", "t", "i", "o", "n", "s", ".", "c", ".", "y", "i", "m", "g", ".", "j", "p", "/", "i", "/", "a", "_", "s", "1", "2", "8", "x", "1", "2", "8", ".", "j", "p", "g">>
  \* https://auctions.c.yimg.jp/i/a_s128x128.jpg
U_elsewhere == <<"h", "t", "t", "p", "s", ":", "/", "/", "e", "x", "a", "m", "p", "l", "e", ".", "c", "o", "m", "/", "y", "a", "h", "o", "o", ".", "c", "o", ".", "j", "p", "/", "p", ".", "p", "n", "g">>
  \* https://example.com/yahoo.co.jp/p.png
U_logo == <<"h", "t", "t", "p", "s", ":", "/", "/", "s", ".", "y", "i", "m", "g", ".", "j", "p", "/", "y", "a", "h", "o", "o", ".", "c", "o", ".", "j", "p", "/", "l", "o", "g", "o", ".", "p", "n", "g">>
  \* https://s.yimg.jp/yahoo.co.jp/logo.png
C_Price__value == <<"P", "r", "i", "c", "e", "_", "_", "v", "a", "l", "u", "e">>
  \* Price__value
C_shipping == <<"s", "h", "i", "p", "p", "i", "n", "g">>
  \* shipping
C_ProductImage == <<"P", "r", "o", "d", "u", "c", "t", "I", "m", "a", "g", "e">>
  \* ProductImage
ID_description == <<"d", "e", "s", "c", "r", "i", "p", "t", "i", "o", "n">>
  \* description

El(depth, tag, text) == Node(depth, tag, <<>>, <<>>, text)

TitleTags == {<<>>, <<El(2, "title", X_titleTag)>>, <<El(2, "title", Suffix)>>,
              <<El(2, "title", X_blank)>>}

H1(text) == Node(2, "h1", <<>>, C_ProductTitle, text)

H1s == {<<>>, <<H1(X_blank)>>, <<H1(X_h1)>>}

Notices ==
  {<<>>, <<El(2, "p", X_canceled)>>, <<El(2, "p", X_withdrawn)>>, <<El(2, "p", X_ended)>>,
   <<El(2, "p", X_sold)>>, <<El(2, "p", X_endDate)>>, <<El(2, "p", X_expiredCanceled)>>}

Buttons ==
  {<<>>, <<El(2, "button", X_bidNow)>>, <<El(2, "a", X_bidLink)>>, <<El(2, "button", X_watch)>>}

HtmlDoc(title, script, body) ==
  <<El(0, "html", <<>>), El(1, "head", <<>>)>> \o title \o script
    \o <<El(1, "body", <<>>)>> \o body

\* A row of the "other information" table, and the region holding the table.
Row(label, value) == <<El(5, "tr", <<>>), El(6, "th", label), El(6, "td", value)>>

OtherInfo(rows) ==
  <<Node(2, "div", ID_otherInfo, <<>>, <<>>), El(3, "table", <<>>), El(4, "tbody", <<>>)>>
    \o rows

StartRows == {<<>>, Row(L_startTime, X_start), Row(L_startTime, X_startAscii),
              Row(L_startTime, X_undecided), Row(L_startTime, X_badMonth)}

EndRows == {<<>>, Row(L_endTime, X_end), Row(L_endTime, X_endColon),
            Row(L_endTime, X_undecided), Row(L_endTime, X_badMonth)}

PriceRows == {<<>>, Row(L_startPrice, X_1000yen), Row(L_startPrice, X_0yen)}

FlagRows ==
  {<<>>, Row(L_earlyEnd, X_ari) \o Row(L_autoExtension, X_nashi),
   Row(L_earlyEnd, X_nashi) \o Row(L_autoExtension, X_ari)}

ReturnRows == {<<>>, Row(L_returnable, X_returnOK), Row(L_returnable, X_returnNG)}

X_ariNote == <<"U+3042", "り", "U+FF08", "早", "U+671F", "U+7D42", "了", "U+3042", "り", "を", "U+9664", "U+304F", "U+FF09">>
  \* あり（早期終了ありを除く）
X_otherID == <<"z", "9", "9", "9", "9", "9", "9", "9", "9", "9", "9">>
\* Tables where a label's text occurs twice in the region, and a table with the
\* row of the auction id, which is not the id the caller asks for.
RepeatedRows ==
  {Row(L_earlyEnd, X_nashi) \o Row(L_autoExtension, X_ariNote),
   Row(L_startPrice, X_1000yen) \o Row(L_startPrice, X_0yen),
   Row(L_autoExtension, X_ari) \o Row(L_autoExtension, X_nashi),
   Row(L_returnable, X_returnNG) \o Row(L_returnable, X_returnOK),
   Row(L_auctionID, X_otherID) \o Row(L_startPrice, X_1000yen)}

Img(depth, src) == [El(depth, "img", <<>>) EXCEPT !.attr = [a \in {"src"} |-> src]]

X_current500 == <<"現", "U+5728", " ", "5", "0", "0", "円">>
  \* 現在 500円
X_currentLabelled == <<"現", "U+5728", "U+306E", "価", "U+683C", ":", " ", "1", ",", "5", "0", "0", "円">>
  \* 現在の価格: 1,500円
X_lot7 == <<"N", "o", ".", "7">>
  \* No.7
PriceNodes ==
  {<<>>, <<Node(2, "div", <<>>, C_Price__value, X_price)>>, <<El(2, "p", X_currentLine)>>}

ShippingNodes ==
  {<<>>, <<Node(2, "span", <<>>, C_shipping, X_freeShipping)>>, <<El(2, "p", X_shipping500)>>}

ImageNodes ==
  {<<>>,
   <<Node(2, "div", <<>>, C_ProductImage, <<>>), Img(3, U_full), Img(3, U_thumb),
     Img(3, U_rel), Img(3, U_full)>>,
   <<Img(2, U_logo), Img(2, U_thumb), Img(2, U_rel)>>,
   <<Img(2, U_elsewhere), Img(2, U_logo), Img(2, U_elsewhere)>>}

DescriptionNodes ==
  {<<>>,
   <<Node(2, "div", ID_description, <<>>, <<>>), El(3, "section", <<>>),
     El(4, "div", X_descText), El(5, "b", X_watch)>>}

Docs ==
     {HtmlDoc(t, s, h) : t \in TitleTags, s \in Scripts, h \in H1s}
  \cup {HtmlDoc(<<>>, s, <<H1(X_h1)>> \o n \o b) :
        s \in {<<>>, <<ObjectScript(ToJSON(NextDataBase))>>,
               <<ObjectScript(ToJSON(CancelInDescription))>>},
        n \in Notices, b \in Buttons}
  \cup {HtmlDoc(<<>>, <<>>, <<H1(X_h1)>> \o OtherInfo(p \o a \o b)) :
        p \in PriceRows, a \in StartRows, b \in EndRows}
  \cup {HtmlDoc(<<>>, <<>>, <<H1(X_h1)>> \o OtherInfo(p \o Row(L_startTime, X_start) \o f \o r)) :
        p \in PriceRows, f \in FlagRows, r \in ReturnRows}
  \cup {HtmlDoc(<<>>, s, <<H1(X_h1)>> \o p \o f \o i \o x) :
        s \in {<<>>, <<ObjectScript([ToJSON(NextDataBase) EXCEPT !.price = JStr(<<"1">>)])>>},
        p \in PriceNodes, f \in ShippingNodes, i \in ImageNodes, x \in DescriptionNodes}
  \cup {HtmlDoc(<<>>, <<>>, <<H1(X_h1)>> \o a \o b \o c) :
        a \in {<<>>, <<Node(2, "div", <<>>, C_Price__value, X_price)>>,
               <<Node(2, "div", <<>>, C_Price__value, <<" ">>)>>},
        b \in {<<>>, <<El(2, "p", X_lot7)>>},
        c \in {<<>>, <<El(2, "p", X_current500)>>, <<El(2, "p", X_currentLabelled)>>}}
  \cup {HtmlDoc(<<>>, <<>>, <<H1(X_h1)>> \o OtherInfo(rows)) : rows \in RepeatedRows}
  \cup {HtmlDoc(<<>>, <<>>, <<H1(X_h1), Node(2, "div", ID_otherInfo, <<>>, x)>>) :
        x \in {X_rescueReturnOK, X_rescueReturnBlank}}
  \cup {HtmlDoc(<<>>, <<>>, <<H1(X_h1), Node(2, "div", ID_otherInfo, <<>>, X_rescueText)>>),
        HtmlDoc(<<>>, <<>>, <<H1(X_h1), Node(2, "div", <<>>, ID_OtherInfo, X_rescueText)>>)}

\* Texts handed to the normalizers.
X_freeOver1000 == <<"U+9001", "料", "U+7121", "料", "U+FF08", "1", ",", "0", "0", "0", "円", "以", "U+4E0A", "U+FF09">>
  \* 送料無料（1,000円以上）
X_Free300 == <<"F", "r", "e", "e", " ", "3", "0", "0">>
  \* Free 300
X_twoPrices == <<"1", ",", "0", "0", "0", "円", " ", "2", ",", "0", "0", "0", "円">>
  \* 1,000円 2,000円
X_noDigits == <<"U+672A", "定">>
  \* 未定
X_1234ken == <<"1", ",", "2", "3", "4", "U+4EF6">>
  \* 1,234件
X_huge == <<"9", "9", "9", "9", "9", "9", "9", "9", "9", "9", "9", "9", "9", "9", "9", "9", "9", "9", "9", "9", "円">>
  \* 99999999999999999999円

X_commas == <<",", ",", "円">>
  \* ,,円
PriceTexts ==
  {<<>>, X_1000yen, X_0yen, X_price, X_freeShipping, X_shipping500, X_freeOver1000,
   X_Free300, X_twoPrices, X_noDigits, X_1234ken, X_huge, X_currentLine, X_commas}

(***************************************************************************)
(* parsePrice and parseCount of common.go, which the category scraper      *)
(* uses: every run of digits of the text, joined and parsed.               *)
(***************************************************************************)
\* math.MaxInt64, which strconv.ParseInt returns together with its range error.
\* It stands for 1<<63 - 1; the model's integers are 32 bits wide, and every
\* other amount of the model lies below it.
MaxInt64 == 2147483647

\* strings.Join(re.FindAllString(s, -1), "") for the pattern [0-9]+.
JoinDigitRuns(s) == SelectSeq(s, LAMBDA c : c \in Digits)

common_parsePrice(s) ==
  LET valStr == JoinDigitRuns(s)
      val    == ParseInt(valStr)
  IN  IF valStr = <<>> THEN 0
      ELSE IF val.ok THEN val.v
      ELSE MaxInt64

parseCount(s) == common_parsePrice(s)

(***************************************************************************)
(* goquery selectors of the category scraper: a selector is the sequence   *)
(* of its compound steps, each a tag and a class (or no class), joined by  *)
(* the descendant combinator.                                              *)
(***************************************************************************)
RECURSIVE ChainMatch(_, _, _, _)
\* Node j matches step k of sel, under ancestors that match the steps before it.
ChainMatch(d, j, sel, k) ==
  /\ d[j].tag = sel[k].tag
  /\ sel[k].class = <<>> \/ HasClass(d[j], sel[k].class)
  /\ k = 1 \/ \E a \in Ancestors(d, j) : ChainMatch(d, a, sel, k - 1)

\* Document.Find(sel).
Select(d, sel) == {j \in 1..Len(d) : ChainMatch(d, j, sel, Len(sel))}

\* Selection.Find(sel): the descendants of the nodes of roots that match sel.
Find(d, roots, sel) == Descendants(d, roots) \cap Select(d, sel)

\* Selection.Eq(i): the node at index i, counted from 0, in document order.
Eq(sel, i) == {j \in sel : Cardinality({x \in sel : x < j}) = i}

\* Selection.Attr(name): the attribute of the first node, and whether it exists.
Attr(d, sel, name) ==
  IF \E j \in First(sel) : name \in DOMAIN d[j].attr
  THEN [val |-> d[CHOOSE j \in First(sel) : TRUE].attr[name], exists |-> TRUE]
  ELSE [val |-> <<>>, exists |-> FALSE]

\* "div.Products__list ul.Products__items li.Product"
Sel_rows ==
  <<[tag |-> "div", class |-> <<"P", "r", "o", "d", "u", "c", "t", "s", "_", "_", "l", "i", "s", "t">>],
    [tag |-> "ul", class |-> <<"P", "r", "o", "d", "u", "c", "t", "s", "_", "_", "i", "t", "e", "m", "s">>],
    [tag |-> "li", class |-> <<"P", "r", "o", "d", "u", "c", "t">>]>>

\* "h3.Product__title a.Product__titleLink"
Sel_titleLink ==
  <<[tag |-> "h3", class |-> <<"P", "r", "o", "d", "u", "c", "t", "_", "_", "t", "i", "t", "l", "e">>],
    [tag |-> "a", class |-> <<"P", "r", "o", "d", "u", "c", "t", "_", "_", "t", "i", "t", "l", "e", "L", "i", "n", "k">>]>>

\* "img.Product__imageData"
Sel_imageData ==
  <<[tag |-> "img", class |-> <<"P", "r", "o", "d", "u", "c", "t", "_", "_", "i", "m", "a", "g", "e", "D", "a", "t", "a">>]>>

\* "div.Product__priceInfo"
Sel_priceInfo ==
  <<[tag |-> "div", class |-> <<"P", "r", "o", "d", "u", "c", "t", "_", "_", "p", "r", "i", "c", "e", "I", "n", "f", "o">>]>>

\* "span.Product__price"
Sel_price ==
  <<[tag |-> "span", class |-> <<"P", "r", "o", "d", "u", "c", "t", "_", "_", "p", "r", "i", "c", "e">>]>>

\* "span.Product__priceValue"
Sel_priceValue ==
  <<[tag |-> "span", class |-> <<"P", "r", "o", "d", "u", "c", "t", "_", "_", "p", "r", "i", "c", "e", "V", "a", "l", "u", "e">>]>>

\* "dd.Product__bid"
Sel_bid ==
  <<[tag |-> "dd", class |-> <<"P", "r", "o", "d", "u", "c", "t", "_", "_", "b", "i", "d">>]>>

\* "div.Result__header div.SearchMode div.Tab ul li.Tab__item--current div span.Tab__subText"
Sel_totalCount ==
  <<[tag |-> "div", class |-> <<"R", "e", "s", "u", "l", "t", "_", "_", "h", "e", "a", "d", "e", "r">>],
    [tag |-> "div", class |-> <<"S", "e", "a", "r", "c", "h", "M", "o", "d", "e">>],
    [tag |-> "div", class |-> <<"T", "a", "b">>],
    [tag |-> "ul", class |-> <<>>],
    [tag |-> "li", class |-> <<"T", "a", "b", "_", "_", "i", "t", "e", "m", "-", "-", "c", "u", "r", "r", "e", "n", "t">>],
    [tag |-> "div", class |-> <<>>],
    [tag |-> "span", class |-> <<"T", "a", "b", "_", "_", "s", "u", "b", "T", "e", "x", "t">>]>>

(***************************************************************************)
(* yahooCategoryScraper.extractCategoryItems                               *)
(***************************************************************************)
\* The image of a row: src when the attribute exists, else data-src.
RowImage(d, img) ==
  IF Attr(d, img, "src").exists THEN Attr(d, img, "src").val
  ELSE IF Attr(d, img, "data-src").exists THEN Attr(d, img, "data-src").val
  ELSE <<>>

\* A variant that takes the buy-now price from the last price slot.
RowPrices_lastSlot(d, prices) ==
  [CurrentPrice |-> common_parsePrice(Text(d, Find(d, First(prices), Sel_priceValue))),
   ImmediatePrice |->
     IF Cardinality(prices) > 1
     THEN common_parsePrice(Text(d, Find(d, Eq(prices, Cardinality(prices) - 1), Sel_priceValue)))
     ELSE 0]

\* The prices of a row, from its span.Product__price elements.
RowPrices(d, prices) ==
  [CurrentPrice |-> common_parsePrice(Text(d, Find(d, First(prices), Sel_priceValue))),
   ImmediatePrice |->
     IF Cardinality(prices) > 1
     THEN common_parsePrice(Text(d, Find(d, Eq(prices, 1), Sel_priceValue)))
     ELSE 0]

\* The body of the Each callback on the row s.
CategoryRow(d, s) ==
  LET titleLink == Find(d, {s}, Sel_titleLink)
      id        == Attr(d, titleLink, "data-auction-id")
      p         == RowPrices(d, Find(d, Find(d, {s}, Sel_priceInfo), Sel_price))
  IN  [AuctionID      |-> IF id.exists THEN id.val ELSE <<>>,
       Title          |-> TrimSpace(Text(d, titleLink)),
       Image          |-> RowImage(d, Find(d, {s}, Sel_imageData)),
       CurrentPrice   |-> p.CurrentPrice,
       ImmediatePrice |-> p.ImmediatePrice,
       BidCount       |-> parseCount(Text(d, Find(d, {s}, Sel_bid)))]

\* A variant that collects the rows last to first.
EachRow_reversed(d, rows) ==
  [i \in 1..Cardinality(rows) |->
     CategoryRow(d, CHOOSE j \in rows : Cardinality({x \in rows : x > j}) = i - 1)]

\* Each over the rows in document order: the items appended, one for each row.
EachRow(d, rows) ==
  [i \in 1..Cardinality(rows) |->
     CategoryRow(d, CHOOSE j \in rows : Cardinality({x \in rows : x < j}) = i - 1)]

\* A variant that counts the listing rows.
TotalCount_rows(d) == Cardinality(Select(d, Sel_rows))

TotalCount(d) == parseCount(Text(d, Select(d, Sel_totalCount)))

\* A variant that reports a next page only beyond a full page.
extractCategoryItems_beyondFull(d) ==
  LET items == EachRow(d, Select(d, Sel_rows))
  IN  [page |-> [Items |-> items, TotalCount |-> TotalCount(d), HasNext |-> Len(items) > 50],
       err |-> NoErr]

extractCategoryItems(d) ==
  LET items == EachRow(d, Select(d, Sel_rows))
  IN  [page |-> [Items |-> items, TotalCount |-> TotalCount(d), HasNext |-> Len(items) >= 50],
       err |-> NoErr]

\* Classes, texts and URLs of the category listing pages.
C_Result__header == <<"R", "e", "s", "u", "l", "t", "_", "_", "h", "e", "a", "d", "e", "r">>
  \* Result__header
C_SearchMode == <<"S", "e", "a", "r", "c", "h", "M", "o", "d", "e">>
  \* SearchMode
C_Tab == <<"T", "a", "b">>
  \* Tab
C_Tab__current == <<"T", "a", "b", "_", "_", "i", "t", "e", "m", " ", "T", "a", "b", "_", "_", "i", "t", "e", "m", "-", "-", "c", "u", "r", "r", "e", "n", "t">>
  \* Tab__item Tab__item--current
C_Tab__item == <<"T", "a", "b", "_", "_", "i", "t", "e", "m">>
  \* Tab__item
C_Tab__subText == <<"T", "a", "b", "_", "_", "s", "u", "b", "T", "e", "x", "t">>
  \* Tab__subText
C_Products__list == <<"P", "r", "o", "d", "u", "c", "t", "s", "_", "_", "l", "i", "s", "t">>
  \* Products__list
C_Products__items == <<"P", "r", "o", "d", "u", "c", "t", "s", "_", "_", "i", "t", "e", "m", "s">>
  \* Products__items
C_Product == <<"P", "r", "o", "d", "u", "c", "t">>
  \* Product
C_Product__detail == <<"P", "r", "o", "d", "u", "c", "t", "_", "_", "d", "e", "t", "a", "i", "l">>
  \* Product__detail
C_Product__title == <<"P", "r", "o", "d", "u", "c", "t", "_", "_", "t", "i", "t", "l", "e">>
  \* Product__title
C_Product__titleLink == <<"P", "r", "o", "d", "u", "c", "t", "_", "_", "t", "i", "t", "l", "e", "L", "i", "n", "k">>
  \* Product__titleLink
C_Product__priceInfo == <<"P", "r", "o", "d", "u", "c", "t", "_", "_", "p", "r", "i", "c", "e", "I", "n", "f", "o">>
  \* Product__priceInfo
C_Product__price == <<"P", "r", "o", "d", "u", "c", "t", "_", "_", "p", "r", "i", "c", "e">>
  \* Product__price
C_Product__priceValue == <<"P", "r", "o", "d", "u", "c", "t", "_", "_", "p", "r", "i", "c", "e", "V", "a", "l", "u", "e">>
  \* Product__priceValue
C_Product__bid == <<"P", "r", "o", "d", "u", "c", "t", "_", "_", "b", "i", "d">>
  \* Product__bid
C_Product__imageData == <<"P", "r", "o", "d", "u", "c", "t", "_", "_", "i", "m", "a", "g", "e", "D", "a", "t", "a">>
  \* Product__imageData
A_id1 == <<"a", "1", "2", "3", "4", "5", "6", "7", "8", "9">>
  \* a123456789
A_id2 == <<"b", "9", "8", "7", "6", "5", "4", "3", "2", "1">>
  \* b987654321
A_id3 == <<"c", "5", "5", "5", "5", "5", "5", "5", "5", "5">>
  \* c555555555
X_item1 == <<"\n", " ", "T", "e", "s", "t", " ", "I", "t", "e", "m", " ", "1", " ">>
  \* \n Test Item 1 
X_item2 == <<"T", "e", "s", "t", " ", "I", "t", "e", "m", " ", "2">>
  \* Test Item 2
X_item3 == <<"T", "e", "s", "t", " ", "I", "t", "e", "m", " ", "3">>
  \* Test Item 3
X_2000yen == <<"2", ",", "0", "0", "0", "円">>
  \* 2,000円
X_500yen == <<"5", "0", "0", "円">>
  \* 500円
X_bid5 == <<"5">>
  \* 5
X_bid0 == <<"0">>
  \* 0
X_bid12 == <<"1", "2", "U+4EF6">>
  \* 12件
X_99ken == <<"9", "9", "U+4EF6">>
  \* 99件
U_img1 == <<"h", "t", "t", "p", ":", "/", "/", "e", "x", "a", "m", "p", "l", "e", ".", "c", "o", "m", "/", "i", "m", "g", "1", ".", "j", "p", "g">>
  \* http://example.com/img1.jpg
U_img2 == <<"h", "t", "t", "p", ":", "/", "/", "e", "x", "a", "m", "p", "l", "e", ".", "c", "o", "m", "/", "i", "m", "g", "2", ".", "j", "p", "g">>
  \* http://example.com/img2.jpg

Elc(depth, tag, class, text) == Node(depth, tag, <<>>, class, text)

\* The result header with the total count in the current tab; another tab before it.
Header(count) ==
  <<Elc(2, "div", C_Result__header, <<>>), Elc(3, "div", C_SearchMode, <<>>),
    Elc(4, "div", C_Tab, <<>>), El(5, "ul", <<>>), Elc(6, "li", C_Tab__current, <<>>),
    El(7, "div", <<>>), Elc(8, "span", C_Tab__subText, count)>>

OtherTab(count) ==
  <<Elc(2, "div", C_Result__header, <<>>), Elc(3, "div", C_SearchMode, <<>>),
    Elc(4, "div", C_Tab, <<>>), El(5, "ul", <<>>), Elc(6, "li", C_Tab__item, <<>>),
    El(7, "div", <<>>), Elc(8, "span", C_Tab__subText, count)>>

Headers == {<<>>, Header(X_1234ken), OtherTab(X_99ken) \o SubSeq(Header(X_1234ken), 5, 7)}

TitleLink(attr, title) ==
  <<Elc(5, "div", C_Product__detail, <<>>), Elc(6, "h3", C_Product__title, <<>>),
    [Elc(7, "a", C_Product__titleLink, title) EXCEPT !.attr = attr]>>

Slot(value) ==
  <<Elc(6, "span", C_Product__price, <<>>), Elc(7, "span", C_Product__priceValue, value)>>

PriceInfo(slots) == <<Elc(5, "div", C_Product__priceInfo, <<>>)>> \o slots

Bid(count) == <<Elc(5, "dd", C_Product__bid, count)>>

ImageData(attr) == <<[Elc(5, "img", C_Product__imageData, <<>>) EXCEPT !.attr = attr]>>

ProductRow(parts) == <<Elc(4, "li", C_Product, <<>>)>> \o parts

\* Two price slots and an image with src.
Row_two ==
  ProductRow(TitleLink([a \in {"data-auction-id"} |-> A_id1], X_item1)
             \o PriceInfo(Slot(X_1000yen) \o Slot(X_2000yen)) \o Bid(X_bid5)
             \o ImageData([a \in {"src"} |-> U_img1]))

\* One price slot and a lazily loaded image with data-src alone.
Row_one ==
  ProductRow(TitleLink([a \in {"data-auction-id"} |-> A_id2], X_item2)
             \o PriceInfo(Slot(X_500yen)) \o Bid(X_bid0)
             \o ImageData([a \in {"data-src"} |-> U_img2]))

\* Three price slots and a lazily loaded image with an empty src and data-src.
Row_three ==
  ProductRow(TitleLink([a \in {"data-auction-id"} |-> A_id3], X_item3)
             \o PriceInfo(Slot(X_1000yen) \o Slot(X_2000yen) \o Slot(X_price)) \o Bid(X_bid12)
             \o ImageData([a \in {"src", "data-src"} |-> IF a = "src" THEN <<>> ELSE U_img2]))

\* A row with no element of its own.
Row_bare == ProductRow(<<>>)

\* A link without an auction ID, a free-shipping price, a count text of its own
\* and an image without a source.
Row_odd ==
  ProductRow(TitleLink(NoAttr, X_item2) \o PriceInfo(Slot(X_freeOver1000))
             \o <<Elc(5, "span", C_Tab__subText, X_99ken)>> \o ImageData(NoAttr))

RowKinds == {Row_two, Row_one, Row_three, Row_bare, Row_odd}

RECURSIVE RowLists(_)
\* The lists of at most n rows.
RowLists(n) ==
  IF n = 0 THEN {<<>>}
  ELSE RowLists(n - 1) \cup {l \o r : l \in RowLists(n - 1), r \in RowKinds}

RECURSIVE Repeat(_, _)
Repeat(row, n) == IF n = 0 THEN <<>> ELSE row \o Repeat(row, n - 1)

ListingDoc(header, rows) ==
  <<El(0, "html", <<>>), El(1, "body", <<>>)>> \o header
    \o (IF rows = <<>> THEN <<>>
        ELSE <<Elc(2, "div", C_Products__list, <<>>), Elc(3, "ul", C_Products__items, <<>>)>> \o rows)

\* Pages of a few rows of every kind, and pages about a full page of 50 rows long.
ListingDocs ==
       {ListingDoc(h, rows) : h \in Headers, rows \in RowLists(MaxRows)}
  \cup {ListingDoc(h, Row_two \o Repeat(Row_bare, n - 1)) :
        h \in {<<>>, Header(X_1234ken)}, n \in (50 - MaxRows)..(50 + MaxRows)}

(***************************************************************************)
(* fetchHTML: h is what stands behind the HTTP client.  kind "request" is  *)
(* a request that cannot be built, "transport" a request without a         *)
(* response, "response" a response with its status and its body, which    *)
(* holds a document when it can be read.                                   *)
(***************************************************************************)
fetchHTML(h) ==
  IF h.kind = "request"
  THEN [doc |-> Nil, sent |-> FALSE,
        err |-> Wrap("failed to create request", <<"net/http: invalid request">>)]
  ELSE IF h.kind = "transport"
  THEN [doc |-> Nil, sent |-> TRUE,
        err |-> Wrap("failed to fetch page", <<"connection refused">>)]
  ELSE IF h.status # 200
  THEN [doc |-> Nil, sent |-> TRUE,
        err |-> <<"failed to fetch page: status " \o ToString(h.status)>>]
  ELSE IF ~h.body.read
  THEN [doc |-> Nil, sent |-> TRUE, err |-> Wrap("failed to parse HTML", <<"unexpected EOF">>)]
  ELSE [doc |-> h.body.doc, sent |-> TRUE, err |-> NoErr]

(***************************************************************************)
(* yahooScraper.FetchByID                                                  *)
(***************************************************************************)
\* The part of FetchByID after fetchHTML has returned f, and after extractItemInfo
\* has returned e.
FetchByID_extracted(e, url) ==
  [item |-> IF e.err # NoErr THEN Nil ELSE e.item,
   err |-> IF e.err # NoErr THEN Wrap("failed to extract item info", e.err) ELSE NoErr,
   requests |-> <<url>>,
   calls |-> <<"fetchHTML", "extractItemInfo">> \o e.calls]

\* A variant that sends the request a second time when the fetch fails.
FetchByID_fetched_retry(f, id, url) ==
  IF f.err # NoErr
  THEN [item |-> Nil, err |-> f.err, requests |-> IF f.sent THEN <<url, url>> ELSE <<>>,
        calls |-> <<"fetchHTML", "fetchHTML">>]
  ELSE FetchByID_extracted(extractItemInfo(f.doc, id), url)

FetchByID_fetched(f, id, url) ==
  IF f.err # NoErr
  THEN [item |-> Nil, err |-> f.err, requests |-> IF f.sent THEN <<url>> ELSE <<>>,
        calls |-> <<"fetchHTML">>]
  ELSE FetchByID_extracted(extractItemInfo(f.doc, id), url)

FetchByID(h, id) ==
  FetchByID_fetched(fetchHTML(h), id,
                    [base |-> "https://page.auctions.yahoo.co.jp", path |-> <<"jp", "auction", id>>])

(***************************************************************************)
(* yahooCategoryScraper.FetchByCategory                                    *)
(***************************************************************************)
itemsPerPage == 50

\* The arithmetic of int64: a sum or a product that leaves the range of the type
\* wraps around.  MaxInt64 is the largest value of the type at the model's width.
MinInt64 == (-MaxInt64) - 1

AddInt64(a, b) ==
  IF a >= 0 /\ b >= 0 /\ a > MaxInt64 - b THEN ((a - (MaxInt64 - b)) - 1) + MinInt64
  ELSE IF a < 0 /\ b < 0 /\ a < MinInt64 - b THEN (a - MinInt64) + (b - MinInt64)
  ELSE a + b

\* a * b for a constant a >= 0, by doubling.
RECURSIVE MulInt64(_, _)
MulInt64(a, b) ==
  IF a = 0 THEN 0
  ELSE LET half == MulInt64(a \div 2, b)
       IN  AddInt64(IF a % 2 = 1 THEN b ELSE 0, AddInt64(half, half))

\* url.Parse rejects a path with a malformed percent escape.
InvalidEscape(cat) == cat = "%zz"

\* The part of FetchByCategory after fetchHTML has returned f.
FetchByCategory_fetched(f, url) ==
  IF f.err # NoErr
  THEN [page |-> Nil, err |-> f.err, requests |-> IF f.sent THEN <<url>> ELSE <<>>,
        calls |-> <<"fetchHTML">>]
  ELSE [requests |-> <<url>>, calls |-> <<"fetchHTML", "extractCategoryItems">>]
       @@ extractCategoryItems(f.doc)

FetchByCategory(h, cat, p) ==
  IF InvalidEscape(cat)
  THEN [page |-> Nil, err |-> Wrap("invalid base url", <<"invalid URL escape">>),
        requests |-> <<>>, calls |-> <<>>]
  ELSE FetchByCategory_fetched(
         fetchHTML(h),
         [base |-> "https://auctions.yahoo.co.jp",
          path |-> <<"category", "list", cat>>,
          query |-> [auccat |-> cat, is_postage_mode |-> "1", dest_pref_code |-> "27",
                     b |-> ToString(AddInt64(MulInt64(itemsPerPage, p), 1)),
                     n |-> ToString(itemsPerPage), s1 |-> "new", o1 |-> "d"]])

(***************************************************************************)
(* The repositories behind the use cases: a scraper with what stands       *)
(* behind its HTTP client, or a test double with the result it is set to   *)
(* return (kind "fake").                                                   *)
(***************************************************************************)
ItemRepository_FetchByID(repo, id) ==
  IF repo.kind = "fake"
  THEN [item |-> repo.item, err |-> repo.err, requests |-> <<>>, calls |-> <<>>]
  ELSE FetchByID(repo, id)

CategoryItemRepository_FetchByCategory(repo, cat, p) ==
  IF repo.kind = "fake"
  THEN [page |-> repo.page, err |-> repo.err, requests |-> <<>>, calls |-> <<>>]
  ELSE FetchByCategory(repo, cat, p)

(***************************************************************************)
(* AuctionUsecase.GetAuction and CategoryUsecase.GetCategoryItems          *)
(***************************************************************************)
\* A variant that wraps the error of the repository.
AuctionUsecase_GetAuction_wrapped(repo, id) ==
  [repoCalls |-> <<[method |-> "FetchByID", auctionID |-> id]>>]
  @@ [ItemRepository_FetchByID(repo, id) EXCEPT
        !.err = IF @ = NoErr THEN NoErr ELSE Wrap("failed to get auction", @)]

\* What the use case returns is what the repository returned; repoCalls are the
\* calls it made to the repository.
AuctionUsecase_GetAuction(repo, id) ==
  [repoCalls |-> <<[method |-> "FetchByID", auctionID |-> id]>>]
  @@ ItemRepository_FetchByID(repo, id)

CategoryUsecase_GetCategoryItems(repo, cat, p) ==
  [repoCalls |-> <<[method |-> "FetchByCategory", categoryID |-> cat, page |-> p]>>]
  @@ CategoryItemRepository_FetchByCategory(repo, cat, p)

(***************************************************************************)
(* AuctionHandler.GetAuction and AuctionHandler.GetCategoryItems           *)
(***************************************************************************)
\* The number of a model.Status, and the protobuf enum value of that number.
StatusNumber(status) ==
  CASE status = StatusUnspecified -> 0
    [] status = StatusActive -> 1
    [] status = StatusFinished -> 2
    [] status = StatusCanceled -> 3

AuctionStatus(n) == [number |-> n]

\* Time.Unix: the seconds from 1970-01-01T00:00:00Z to the instant t denotes.
UnixEpoch == [year |-> 1970, month |-> 1, day |-> 1, hour |-> 0, min |-> 0, sec |-> 0, offset |-> 0]

Unix(t) == (Minutes(t) - Minutes(UnixEpoch)) * 60 + t.sec

\* A variant that reads the wall clock of t as if it were UTC.
timestamppb_New_wallClock(t) == [seconds |-> Unix([t EXCEPT !.offset = 0]), nanos |-> 0]

timestamppb_New(t) == [seconds |-> Unix(t), nanos |-> 0]

ProtoAuctionInformation(info) ==
  [AuctionId        |-> info.AuctionID,
   StartPrice       |-> info.StartPrice,
   EarlyEnd         |-> info.EarlyEnd,
   AutoExtension    |-> info.AutoExtension,
   Returnable       |-> info.Returnable,
   ReturnableDetail |-> info.ReturnableDetail,
   StartTime        |-> IF ~IsZero(info.StartTime) THEN timestamppb_New(info.StartTime) ELSE Nil,
   EndTime          |-> IF ~IsZero(info.EndTime) THEN timestamppb_New(info.EndTime) ELSE Nil]

\* A variant that answers a use-case error with CodeInternal.
AuctionHandler_GetAuction_internal(uc) ==
  IF uc.err # NoErr
  THEN [resp |-> Nil, connectErr |-> [code |-> "CodeInternal", err |-> uc.err]]
  ELSE [resp |-> [AuctionId    |-> uc.item.AuctionID,
                  Title        |-> uc.item.Title,
                  CurrentPrice |-> uc.item.CurrentPrice,
                  Status       |-> AuctionStatus(StatusNumber(uc.item.Status)),
                  Images       |-> uc.item.Images,
                  Description  |-> uc.item.Description,
                  AuctionInformation |->
                    IF uc.item.AuctionInfo # Nil
                    THEN ProtoAuctionInformation(uc.item.AuctionInfo)
                    ELSE Nil],
        connectErr |-> Nil]

\* uc is what the use case returned.
AuctionHandler_GetAuction(uc) ==
  IF uc.err # NoErr
  THEN [resp |-> Nil, connectErr |-> [code |-> "CodeNotFound", err |-> uc.err]]
  ELSE [resp |-> [AuctionId    |-> uc.item.AuctionID,
                  Title        |-> uc.item.Title,
                  CurrentPrice |-> uc.item.CurrentPrice,
                  Status       |-> AuctionStatus(StatusNumber(uc.item.Status)),
                  Images       |-> uc.item.Images,
                  Description  |-> uc.item.Description,
                  AuctionInformation |->
                    IF uc.item.AuctionInfo # Nil
                    THEN ProtoAuctionInformation(uc.item.AuctionInfo)
                    ELSE Nil],
        connectErr |-> Nil]

\* The response item of a CategoryItem; its Image is not assigned.
ProtoCategoryItem(it) ==
  [AuctionId      |-> it.AuctionID,
   Title          |-> it.Title,
   CurrentPrice   |-> it.CurrentPrice,
   ImmediatePrice |-> it.ImmediatePrice,
   BidCount       |-> it.BidCount,
   Image          |-> <<>>]

AuctionHandler_GetCategoryItems(uc) ==
  IF uc.err # NoErr
  THEN [resp |-> Nil, connectErr |-> [code |-> "CodeInternal", err |-> uc.err]]
  ELSE [resp |-> [Items |-> [i \in 1..Len(uc.page.Items) |-> ProtoCategoryItem(uc.page.Items[i])],
                  TotalCount |-> uc.page.TotalCount],
        connectErr |-> Nil]

(***************************************************************************)
(* What stands behind an RPC: the answers of the network, and the test     *)
(* doubles with the results they are set to return.                        *)
(***************************************************************************)
DetailPages == {HtmlDoc(<<>>, s, <<H1(X_h1)>>) : s \in Scripts}

ListingPages == {ListingDoc(h, rows) : h \in Headers, rows \in RowLists(1)}

Readable(d) == [read |-> TRUE, doc |-> d]

Unreadable == [read |-> FALSE]

Answers(bodies) ==
       {[kind |-> "request"], [kind |-> "transport"]}
  \cup {[kind |-> "response", status |-> s, body |-> Unreadable] : s \in {200, 404, 500}}
  \cup {[kind |-> "response", status |-> 200, body |-> Readable(b)] : b \in bodies}

Info_test ==
  [AuctionID        |-> "x1234567890",
   StartPrice       |-> 100,
   StartTime        |-> TimeFromJSON(T_start),
   EndTime          |-> TimeFromJSON(T_end),
   EarlyEnd         |-> TRUE,
   AutoExtension    |-> FALSE,
   Returnable       |-> TRUE,
   ReturnableDetail |-> <<"d", "e", "t", "a", "i", "l">>]

Item_test ==
  [AuctionID    |-> "x1234567890",
   Title        |-> <<"t", "i", "t", "l", "e">>,
   CurrentPrice |-> 1234,
   ShippingFee  |-> 0,
   Status       |-> StatusActive,
   Images       |-> <<U_img1, U_img2>>,
   Description  |-> <<"<", "p", ">", "d", "e", "s", "c", "<", "/", "p", ">">>,
   AuctionInfo  |-> Info_test]

FakeTimes == {ZeroTime, TimeFromJSON(T_start), TimeFromJSON(T_utc)}

FakeItems ==
  {[Item_test EXCEPT !.Status = s, !.AuctionInfo = a] :
     s \in {StatusUnspecified, StatusActive, StatusFinished, StatusCanceled},
     a \in {Nil} \cup {[Info_test EXCEPT !.StartTime = x, !.EndTime = y] :
                         x \in FakeTimes, y \in FakeTimes}}

FakeErrs == {<<"usecase error">>, <<"repo error">>}

FakeItemRepos ==
       {[kind |-> "fake", item |-> i, err |-> NoErr] : i \in FakeItems}
  \cup {[kind |-> "fake", item |-> i, err |-> e] : i \in {Nil, Item_test}, e \in FakeErrs}

CategoryItem_1 ==
  [AuctionID |-> A_id1, Title |-> X_item2, Image |-> U_img1,
   CurrentPrice |-> 1000, ImmediatePrice |-> 2000, BidCount |-> 5]

CategoryItem_2 ==
  [AuctionID |-> A_id2, Title |-> X_item3, Image |-> U_img2,
   CurrentPrice |-> 500, ImmediatePrice |-> 0, BidCount |-> 0]

CategoryItem_titleOnly ==
  [AuctionID |-> <<>>, Title |-> <<"i", "t", "e", "m", "1">>, Image |-> <<>>,
   CurrentPrice |-> 0, ImmediatePrice |-> 0, BidCount |-> 0]

FakePages ==
  {[Items |-> <<CategoryItem_1, CategoryItem_2>>, TotalCount |-> 100, HasNext |-> TRUE],
   [Items |-> <<CategoryItem_2, CategoryItem_1>>, TotalCount |-> 2, HasNext |-> FALSE],
   [Items |-> <<CategoryItem_titleOnly>>, TotalCount |-> 1, HasNext |-> FALSE],
   [Items |-> <<>>, TotalCount |-> 0, HasNext |-> FALSE]}

FakeCategoryRepos ==
       {[kind |-> "fake", page |-> p, err |-> NoErr] : p \in FakePages}
  \cup {[kind |-> "fake", page |-> p, err |-> e] :
          p \in {Nil, [Items |-> <<CategoryItem_1>>, TotalCount |-> 1, HasNext |-> FALSE]},
          e \in FakeErrs}

ItemRepos == Answers(DetailPages) \cup FakeItemRepos

CategoryRepos == Answers(ListingPages) \cup FakeCategoryRepos

CategoryIDs == {"2084261685", "cat1", "%zz"}

MaxPage == 2

PageNos == 0..MaxPage

\* Pages at the end of the range of int64: the last whose offset the type holds,
\* the one after it, and the largest page number there is.
LargePages == {(MaxInt64 - 1) \div itemsPerPage, ((MaxInt64 - 1) \div itemsPerPage) + 1, MaxInt64}

\* The page the scraper parsed, if it got one.
Fetched(h) ==
  IF h.kind = "response" /\ h.status = 200 /\ h.body.read THEN h.body.doc ELSE <<>>

(***************************************************************************)
(* Extraction calls that run at the same time.  The calls share the        *)
(* scraper instances (their fields are set by the constructors and read    *)
(* only); everything else a call touches is local to it: the document and  *)
(* the auction id it was given, the payload it decoded, the items it has   *)
(* appended so far.  A step is what one call does between two points where *)
(* another call may run.                                                   *)
(***************************************************************************)
MaxCalls == 2

Calls == 1..MaxCalls

Scrapers ==
  [item     |-> [client |-> "http.Client", baseURL |-> "https://page.auctions.yahoo.co.jp"],
   category |-> [client |-> "http.Client", baseURL |-> "https://auctions.yahoo.co.jp"]]

\* A slot with no call in it.
Free == [pc |-> "free"]

\* The locals of a call of extractItemInfo(d, id) and of extractCategoryItems(d)
\* at entry.
StartItemInfo(d, id) ==
  [pc |-> "parseNextData", kind |-> "extractItemInfo", doc |-> d, id |-> id,
   nextData |-> Nil, items |-> <<>>, row |-> 0, item |-> Nil, page |-> Nil, err |-> NoErr]

StartCategoryItems(d) ==
  [pc |-> "Each", kind |-> "extractCategoryItems", doc |-> d, id |-> "",
   nextData |-> Nil, items |-> <<>>, row |-> 0, item |-> Nil, page |-> Nil, err |-> NoErr]

\* extractItemInfo: nextData, err := s.parseNextData(doc), and the return on err.
StepParseNextData(s, l) ==
  [scraper |-> s,
   local |-> IF parseNextData(l.doc).err # NoErr
             THEN [l EXCEPT !.pc = "done",
                            !.err = Wrap("failed to parse next data", parseNextData(l.doc).err)]
             ELSE [l EXCEPT !.pc = "extractItemFromJSON", !.nextData = parseNextData(l.doc).data]]

\* extractItemInfo: item := s.extractItemFromJSON(nextData, auctionID); return item, nil.
StepExtractItemFromJSON(s, l) ==
  [scraper |-> s,
   local |-> [l EXCEPT !.pc = "done", !.item = extractItemFromJSON(l.nextData, l.id)]]

\* The rows of the page still to visit.
RowsLeft(l) == l.row < Cardinality(Select(l.doc, Sel_rows))

\* A variant that keeps the items appended so far in the scraper instance.
StepEachRow_shared(s, l) ==
  [scraper |->
     [items |-> (IF "items" \in DOMAIN s THEN s.items ELSE <<>>)
                \o <<CategoryRow(l.doc, CHOOSE j \in Eq(Select(l.doc, Sel_rows), l.row) : TRUE)>>]
     @@ s,
   local |->
     [l EXCEPT !.row = @ + 1,
               !.items = (IF "items" \in DOMAIN s THEN s.items ELSE <<>>)
                         \o <<CategoryRow(l.doc, CHOOSE j \in Eq(Select(l.doc, Sel_rows), l.row) : TRUE)>>]]

\* extractCategoryItems: one call of the Each callback, on the next row; it
\* appends to the items of this call.
StepEachRow(s, l) ==
  [scraper |-> s,
   local |->
     [l EXCEPT !.row = @ + 1,
               !.items = @ \o <<CategoryRow(l.doc, CHOOSE j \in Eq(Select(l.doc, Sel_rows), l.row) : TRUE)>>]]

\* extractCategoryItems after the Each: the total count and the page returned.
StepTotalCount(s, l) ==
  [scraper |-> s,
   local |-> [l EXCEPT !.pc = "done",
                       !.page = [Items |-> l.items, TotalCount |-> TotalCount(l.doc),
                                 HasNext |-> Len(l.items) >= 50]]]

\* The pages of the calls that run at the same time.
ConcItemPages ==
  {HtmlDoc(<<>>, s, <<H1(X_h1)>>) :
     s \in {<<>>, <<ScriptNode(<<"n", "u", "l", "l">>, [k |-> "null"])>>,
            <<ObjectScript(ToJSON(NextDataBase))>>,
            <<ObjectScript(ToJSON(CancelInDescription))>>}}

ConcListingPages ==
  {ListingDoc(<<>>, <<>>), ListingDoc(Header(X_1234ken), Row_two),
   ListingDoc(Header(X_1234ken), Row_one \o Row_three), ListingDoc(<<>>, Row_three \o Row_two)}

(***************************************************************************)
(* The scraper as a state machine: a caller invokes one operation on a     *)
(* document or payload and reads the clock; the operation runs to its      *)
(* return; the caller takes the result.  The scraper keeps nothing between *)
(* calls.                                                                  *)
(***************************************************************************)
Init ==
  /\ pc = "idle" /\ op = "none" /\ doc = <<>> /\ auctionID = "" /\ data = Nil
  /\ item = Nil /\ err = NoErr /\ calls = <<>>
  /\ now = ZeroTime
  /\ str = <<>> /\ price = 0
  /\ categoryID = "" /\ pageNo = 0 /\ page = Nil
  /\ backend = Nil /\ requests = <<>> /\ resp = Nil /\ connectErr = Nil /\ repoCalls = <<>>
  /\ scraper = Scrapers /\ inflight = [c \in Calls |-> Free]

Call_parseNextData ==
  /\ pc = "idle"
  /\ \E d \in Docs, t \in Clock :
       \E r \in {parseNextData(d)} :
           /\ pc' = "done" /\ op' = "parseNextData" /\ doc' = d /\ auctionID' = ""
           /\ data' = r.data /\ item' = Nil /\ err' = r.err
           /\ calls' = <<>> /\ now' = t
           /\ UNCHANGED <<concVars, normVars, listVars, rpcVars>>

Call_extractItemFromJSON ==
  /\ pc = "idle"
  /\ \E nd \in NextDatas, id \in AuctionIDs, t \in Clock :
       /\ pc' = "done" /\ op' = "extractItemFromJSON" /\ doc' = <<>> /\ auctionID' = id
       /\ data' = nd /\ item' = extractItemFromJSON(nd, id) /\ err' = NoErr
       /\ calls' = <<>> /\ now' = t
       /\ UNCHANGED <<concVars, normVars, listVars, rpcVars>>

Call_extractItemInfo ==
  /\ pc = "idle"
  /\ \E d \in Docs, id \in AuctionIDs, t \in Clock :
       \E r \in {extractItemInfo(d, id)} :
           /\ pc' = "done" /\ op' = "extractItemInfo" /\ doc' = d /\ auctionID' = id
           /\ data' = r.nextData /\ item' = r.item /\ err' = r.err
           /\ calls' = r.calls /\ now' = t
           /\ UNCHANGED <<concVars, normVars, listVars, rpcVars>>

Call_HeuristicExtractItemInfo ==
  /\ pc = "idle"
  /\ \E d \in Docs, id \in AuctionIDs :
       \E r \in {HeuristicExtractItemInfo(d, id)} :
           /\ pc' = "done" /\ op' = "HeuristicExtractItemInfo" /\ doc' = d
           /\ auctionID' = id /\ data' = Nil /\ item' = r.item /\ err' = r.err
           /\ calls' = r.calls /\ now' = now
           /\ UNCHANGED <<concVars, normVars, listVars, rpcVars>>

Call_parsePrice ==
  /\ pc = "idle"
  /\ \E s \in PriceTexts :
       /\ pc' = "done" /\ op' = "parsePrice" /\ str' = s /\ price' = parsePrice(s)
       /\ UNCHANGED <<concVars, doc, auctionID, data, item, err, calls, now, listVars, rpcVars>>

Call_common_parsePrice ==
  /\ pc = "idle"
  /\ \E s \in PriceTexts :
       /\ pc' = "done" /\ op' = "common.parsePrice" /\ str' = s
       /\ price' = common_parsePrice(s)
       /\ UNCHANGED <<concVars, doc, auctionID, data, item, err, calls, now, listVars, rpcVars>>

Call_parseCount ==
  /\ pc = "idle"
  /\ \E s \in PriceTexts :
       /\ pc' = "done" /\ op' = "common.parseCount" /\ str' = s /\ price' = parseCount(s)
       /\ UNCHANGED <<concVars, doc, auctionID, data, item, err, calls, now, listVars, rpcVars>>

Call_extractCategoryItems ==
  /\ pc = "idle"
  /\ \E d \in ListingDocs :
       \E r \in {extractCategoryItems(d)} :
           /\ pc' = "done" /\ op' = "extractCategoryItems" /\ doc' = d
           /\ page' = r.page /\ err' = r.err
           /\ UNCHANGED <<concVars, auctionID, data, item, calls, now, normVars, categoryID, pageNo, rpcVars>>

Call_FetchByID ==
  /\ pc = "idle"
  /\ \E h \in Answers(DetailPages), id \in AuctionIDs :
       \E r \in {FetchByID(h, id)} :
           /\ pc' = "done" /\ op' = "FetchByID" /\ backend' = h /\ auctionID' = id
           /\ doc' = Fetched(h) /\ item' = r.item /\ err' = r.err
           /\ calls' = r.calls /\ requests' = r.requests
           /\ UNCHANGED <<concVars, data, now, normVars, listVars, resp, connectErr, repoCalls>>

Call_FetchByCategory ==
  /\ pc = "idle"
  /\ \E h \in Answers(ListingPages), c \in CategoryIDs, p \in PageNos \cup LargePages :
       \E r \in {FetchByCategory(h, c, p)} :
           /\ pc' = "done" /\ op' = "FetchByCategory" /\ backend' = h
           /\ categoryID' = c /\ pageNo' = p
           /\ doc' = IF InvalidEscape(c) THEN <<>> ELSE Fetched(h)
           /\ page' = r.page /\ err' = r.err
           /\ calls' = r.calls /\ requests' = r.requests
           /\ UNCHANGED <<concVars, auctionID, data, item, now, normVars, resp, connectErr, repoCalls>>

Call_AuctionUsecase_GetAuction ==
  /\ pc = "idle"
  /\ \E repo \in ItemRepos, id \in AuctionIDs :
       \E r \in {AuctionUsecase_GetAuction(repo, id)} :
           /\ pc' = "done" /\ op' = "AuctionUsecase.GetAuction" /\ backend' = repo
           /\ auctionID' = id /\ doc' = IF repo.kind = "fake" THEN <<>> ELSE Fetched(repo)
           /\ item' = r.item /\ err' = r.err
           /\ calls' = r.calls /\ requests' = r.requests /\ repoCalls' = r.repoCalls
           /\ UNCHANGED <<concVars, data, now, normVars, listVars, resp, connectErr>>

Call_CategoryUsecase_GetCategoryItems ==
  /\ pc = "idle"
  /\ \E repo \in CategoryRepos, c \in CategoryIDs, p \in PageNos :
       \E r \in {CategoryUsecase_GetCategoryItems(repo, c, p)} :
           /\ pc' = "done" /\ op' = "CategoryUsecase.GetCategoryItems" /\ backend' = repo
           /\ categoryID' = c /\ pageNo' = p
           /\ doc' = IF repo.kind = "fake" \/ InvalidEscape(c) THEN <<>> ELSE Fetched(repo)
           /\ page' = r.page /\ err' = r.err
           /\ calls' = r.calls /\ requests' = r.requests /\ repoCalls' = r.repoCalls
           /\ UNCHANGED <<concVars, auctionID, data, item, now, normVars, resp, connectErr>>

Call_GetAuction ==
  /\ pc = "idle"
  /\ \E repo \in ItemRepos, id \in AuctionIDs :
       \E uc \in {AuctionUsecase_GetAuction(repo, id)} :
         \E r \in {AuctionHandler_GetAuction(uc)} :
           /\ pc' = "done" /\ op' = "AuctionHandler.GetAuction" /\ backend' = repo
           /\ auctionID' = id /\ doc' = IF repo.kind = "fake" THEN <<>> ELSE Fetched(repo)
           /\ item' = uc.item /\ err' = uc.err
           /\ calls' = uc.calls /\ requests' = uc.requests /\ repoCalls' = uc.repoCalls
           /\ resp' = r.resp /\ connectErr' = r.connectErr
           /\ UNCHANGED <<concVars, data, now, normVars, listVars>>

Call_GetCategoryItems ==
  /\ pc = "idle"
  /\ \E repo \in CategoryRepos, c \in CategoryIDs, p \in PageNos :
       \E uc \in {CategoryUsecase_GetCategoryItems(repo, c, p)} :
         \E r \in {AuctionHandler_GetCategoryItems(uc)} :
           /\ pc' = "done" /\ op' = "AuctionHandler.GetCategoryItems" /\ backend' = repo
           /\ categoryID' = c /\ pageNo' = p
           /\ doc' = IF repo.kind = "fake" \/ InvalidEscape(c) THEN <<>> ELSE Fetched(repo)
           /\ page' = uc.page /\ err' = uc.err
           /\ calls' = uc.calls /\ requests' = uc.requests /\ repoCalls' = uc.repoCalls
           /\ resp' = r.resp /\ connectErr' = r.connectErr
           /\ UNCHANGED <<concVars, auctionID, data, item, now, normVars>>

Return ==
  /\ pc = "done"
  /\ pc' = "idle" /\ op' = "none" /\ doc' = <<>> /\ auctionID' = "" /\ data' = Nil
  /\ item' = Nil /\ err' = NoErr /\ calls' = <<>> /\ now' = ZeroTime
  /\ str' = <<>> /\ price' = 0
  /\ categoryID' = "" /\ pageNo' = 0 /\ page' = Nil
  /\ backend' = Nil /\ requests' = <<>> /\ resp' = Nil /\ connectErr' = Nil /\ repoCalls' = <<>>
  /\ UNCHANGED concVars

Next ==
  \/ Call_parseNextData
  \/ Call_extractItemFromJSON
  \/ Call_extractItemInfo
  \/ Call_HeuristicExtractItemInfo
  \/ Call_parsePrice
  \/ Call_common_parsePrice
  \/ Call_parseCount
  \/ Call_extractCategoryItems
  \/ Call_FetchByID
  \/ Call_FetchByCategory
  \/ Call_AuctionUsecase_GetAuction
  \/ Call_CategoryUsecase_GetCategoryItems
  \/ Call_GetAuction
  \/ Call_GetCategoryItems
  \/ Return

Spec == Init /\ [][Next]_vars

(***************************************************************************)
(* Calls in progress at the same time: a call begins in a free slot, takes *)
(* its steps one at a time, in any order with the steps of the others, and *)
(* returns.                                                                *)
(***************************************************************************)
seqVars == <<pc, op, doc, auctionID, data, item, err, calls, now, normVars, listVars, rpcVars>>

\* Call c takes the step r.
Took(c, r) ==
  /\ scraper' = r.scraper
  /\ inflight' = [inflight EXCEPT ![c] = r.local]
  /\ UNCHANGED seqVars

Begin_extractItemInfo(c) ==
  /\ inflight[c].pc = "free"
  /\ \E d \in ConcItemPages, id \in AuctionIDs :
       Took(c, [scraper |-> scraper, local |-> StartItemInfo(d, id)])

Begin_extractCategoryItems(c) ==
  /\ inflight[c].pc = "free"
  /\ \E d \in ConcListingPages :
       Took(c, [scraper |-> scraper, local |-> StartCategoryItems(d)])

Go_parseNextData(c) ==
  /\ inflight[c].pc = "parseNextData"
  /\ \E r \in {StepParseNextData(scraper, inflight[c])} : Took(c, r)

Go_extractItemFromJSON(c) ==
  /\ inflight[c].pc = "extractItemFromJSON"
  /\ \E r \in {StepExtractItemFromJSON(scraper, inflight[c])} : Took(c, r)

Go_EachRow(c) ==
  /\ inflight[c].pc = "Each" /\ RowsLeft(inflight[c])
  /\ \E r \in {StepEachRow(scraper, inflight[c])} : Took(c, r)

Go_TotalCount(c) ==
  /\ inflight[c].pc = "Each" /\ ~RowsLeft(inflight[c])
  /\ \E r \in {StepTotalCount(scraper, inflight[c])} : Took(c, r)

End_Call(c) ==
  /\ inflight[c].pc = "done"
  /\ Took(c, [scraper |-> scraper, local |-> Free])

NextConc ==
  \E c \in Calls :
    \/ Begin_extractItemInfo(c)
    \/ Begin_extractCategoryItems(c)
    \/ Go_parseNextData(c)
    \/ Go_extractItemFromJSON(c)
    \/ Go_EachRow(c)
    \/ Go_TotalCount(c)
    \/ End_Call(c)

SpecConc == Init /\ [][NextConc]_vars

(***************************************************************************)
(* Vocabulary of the properties below.                                     *)
(***************************************************************************)
\* The call has returned an Item built from a decoded payload.
Mapped == pc = "done" /\ op \in {"extractItemFromJSON", "extractItemInfo"} /\ item # Nil

HeuristicDone == pc = "done" /\ op = "HeuristicExtractItemInfo"

\* The page has no script#__NEXT_DATA__ element.
BlockAbsent(d) == {i \in 1..Len(d) : IsNextDataScript(d[i])} = {}

\* The page has a script#__NEXT_DATA__ element whose content decodes.
PayloadDecodes(d) ==
  \E i \in {i \in 1..Len(d) : IsNextDataScript(d[i])} : d[i].text # <<>> /\ Unmarshal(d[i].json).err = NoErr

\* The record the content of the page's script#__NEXT_DATA__ element decodes to.
Payload(d) ==
  Unmarshal(d[CHOOSE i \in {i \in 1..Len(d) : IsNextDataScript(d[i])} : d[i].text # <<>>].json).data

\* The exact-match status table.
StatusTable(status) ==
  IF status = S_open THEN StatusActive
  ELSE IF status = S_closed THEN StatusFinished
  ELSE IF status \in {S_cancel, S_canceled} THEN StatusCanceled
  ELSE StatusUnspecified

HeuristicMethods ==
  {"extractImageURLs", "extractDescriptionFromJSON", "isAuctionFinished",
   "extractAuctionInformation"}

\* The value cells of the table rows whose label cell is label.
RowValues(d, label) ==
  {j \in 2..Len(d) : d[j].tag = "td" /\ d[j - 1].tag = "th" /\ d[j - 1].text = label}

WithRowValue(d, label, v) ==
  [j \in 1..Len(d) |-> IF j \in RowValues(d, label) THEN [d[j] EXCEPT !.text = v] ELSE d[j]]

TimesBlank(it) ==
  [it EXCEPT !.AuctionInfo.StartTime = ZeroTime, !.AuctionInfo.EndTime = ZeroTime]

C3_StatusExactMatch ==
  Mapped =>
    /\ item.Status = StatusTable(data.Status)
    /\ item.Status = StatusActive <=> data.Status = <<"o", "p", "e", "n">>
    /\ item.Status = StatusFinished <=> data.Status = <<"c", "l", "o", "s", "e", "d">>
    /\ item.Status = StatusCanceled <=>
         data.Status \in {<<"c", "a", "n", "c", "e", "l">>,
                          <<"c", "a", "n", "c", "e", "l", "e", "d">>}

\* An open auction whose end time is before the clock reading stays Active.
C3_Witness ==
  /\ pc = "done" /\ op = "extractItemFromJSON"
  /\ data.Status = S_open
  /\ parseRFC3339(data.EndTime).ok
  /\ Before(parseRFC3339(data.EndTime).t, now)
  /\ item.Status = StatusActive

(***************************************************************************)
(* C4.  The current price of a mapped Item is the payload's taxinPrice     *)
(* when that is greater than zero and its price otherwise.                 *)
(***************************************************************************)
C4_CurrentPrice ==
  Mapped =>
    item.CurrentPrice = (IF data.TaxinPrice > 0 THEN data.TaxinPrice ELSE data.Price)

\* taxinPrice 0 and price 999 give 999.
C4_Witness ==
  /\ pc = "done" /\ op = "extractItemFromJSON"
  /\ data.TaxinPrice = 0 /\ data.Price = 999
  /\ item.CurrentPrice = 999

(***************************************************************************)
(* C5.  The start price of a mapped Item is the payload's taxinStartPrice  *)
(* when that is greater than zero and its initPrice otherwise, whichever   *)
(* way the current price was chosen.                                       *)
(***************************************************************************)
C5_StartPrice ==
  Mapped =>
    item.AuctionInfo.StartPrice =
      (IF data.TaxinStartPrice > 0 THEN data.TaxinStartPrice ELSE data.InitPrice)

\* The current price comes from taxinPrice while the start price falls back
\* to initPrice: taxinStartPrice 0 and initPrice 111 give 111.
C5_Witness ==
  /\ pc = "done" /\ op = "extractItemFromJSON"
  /\ data.TaxinPrice = 1234 /\ item.CurrentPrice = 1234
  /\ data.TaxinStartPrice = 0 /\ data.InitPrice = 111
  /\ item.AuctionInfo.StartPrice = 111

(***************************************************************************)
(* C6.  The images of a mapped Item hold each URL of the payload's image   *)
(* list exactly once, in the order of the URLs' first occurrences in the   *)
(* list; widths and heights play no part.                                  *)
(***************************************************************************)
C6_ImagesDeduplicated ==
  Mapped =>
    LET url(i) == data.Img[i].image
        first(u) == CHOOSE i \in 1..Len(data.Img) :
                      url(i) = u /\ \A k \in 1..(i - 1) : url(k) # u
        images == item.Images
    IN  /\ {images[i] : i \in 1..Len(images)} = {url(i) : i \in 1..Len(data.Img)}
        /\ \A i, j \in 1..Len(images) : i # j => images[i] # images[j]
        /\ \A i, j \in 1..Len(images) : i < j => first(images[i]) < first(images[j])

\* [A, B, A, C], the second A with another width and height, gives [A, B, C].
C6_Witness ==
  /\ pc = "done" /\ op = "extractItemFromJSON"
  /\ Len(data.Img) = 4
  /\ [i \in 1..4 |-> data.Img[i].image] = <<URL_A, URL_B, URL_A, URL_C>>
  /\ data.Img[1].width # data.Img[3].width
  /\ item.Images = <<URL_A, URL_B, URL_C>>

(***************************************************************************)
(* C7.  A start or end time that is absent or does not parse never makes   *)
(* extraction fail, on either path.  On the JSON path each time of the     *)
(* Item is the parse of its own payload string, or the zero time when that *)
(* does not parse, and the rest of the Item is what the same payload with  *)
(* parseable times gives.  On the heuristic path the only error is the     *)
(* missing title; a time whose table cell does not parse, or whose label   *)
(* the region does not hold, is the zero time; a time whose cell parses is *)
(* that parse whatever the other cell holds; and the rest of the Item is   *)
(* what the same page with parseable cells gives.                          *)
(***************************************************************************)
C7_TimesOptional ==
  /\ Mapped =>
       LET st == parseRFC3339(data.StartTime)
           et == parseRFC3339(data.EndTime)
       IN  /\ err = NoErr
           /\ item.AuctionInfo.StartTime = (IF st.ok THEN st.t ELSE ZeroTime)
           /\ item.AuctionInfo.EndTime = (IF et.ok THEN et.t ELSE ZeroTime)
           /\ (~st.ok \/ ~et.ok) =>
                TimesBlank(item) =
                  TimesBlank(extractItemFromJSON(
                    [data EXCEPT !.StartTime = T_start, !.EndTime = T_end], auctionID))
  /\ HeuristicDone =>
       LET region == Text(doc, OtherInfoRegion(doc))
           sv == RowValues(doc, L_startTime)
           ev == RowValues(doc, L_endTime)
           parsed(j) == parseDateTime(doc[j].text)
       IN  /\ err # NoErr => err = <<"item title not found - page structure may have changed">>
           /\ item # Nil =>
                /\ ~Contains(region, L_startTime) => IsZero(item.AuctionInfo.StartTime)
                /\ ~Contains(region, L_endTime) => IsZero(item.AuctionInfo.EndTime)
                /\ \A j \in sv : item.AuctionInfo.StartTime =
                                   (IF parsed(j).ok THEN parsed(j).t ELSE ZeroTime)
                /\ \A j \in ev : item.AuctionInfo.EndTime =
                                   (IF parsed(j).ok THEN parsed(j).t ELSE ZeroTime)
                /\ (\E j \in sv \cup ev : ~parsed(j).ok) =>
                     TimesBlank(item) =
                       TimesBlank(HeuristicExtractItemInfo(
                         WithRowValue(WithRowValue(doc, L_startTime, X_start),
                                      L_endTime, X_end), auctionID).item)

\* A page whose start cell does not parse and whose end cell does: the start
\* time is zero, the end time and the start price are set.
C7_Witness ==
  /\ HeuristicDone
  /\ item # Nil
  /\ \E j \in RowValues(doc, L_startTime) : doc[j].text = X_undecided
  /\ \E j \in RowValues(doc, L_endTime) : doc[j].text = X_end
  /\ IsZero(item.AuctionInfo.StartTime)
  /\ ~IsZero(item.AuctionInfo.EndTime)
  /\ item.AuctionInfo.StartPrice = 1000

(***************************************************************************)
(* C8.  As claimed: parseNextData fails with "missing" exactly when the    *)
(* page has no script#__NEXT_DATA__ element, and with "malformed" exactly  *)
(* when the page has the element and its content does not decode, an empty *)
(* element counting as present; a failure carries no record, and every     *)
(* other call returns the record the content decodes to.                   *)
(***************************************************************************)
C8_MissingIffAbsent ==
  (pc = "done" /\ op = "parseNextData") =>
    /\ err = <<"next data script not found">> <=> BlockAbsent(doc)
    /\ (err # NoErr /\ Head(err) = "failed to unmarshal next data")
         <=> (~BlockAbsent(doc) /\ ~PayloadDecodes(doc))
    /\ err # NoErr => data = Nil
    /\ err = NoErr => data = Payload(doc)

(***************************************************************************)
(* C9.  The heuristic extractor returns an error and no Item exactly when  *)
(* the title it finds (the heading, else the title tag with the suffix     *)
(* stripped, trimmed) is empty: no other missing field aborts it, and an   *)
(* Item it returns has a title.  The JSON mapper returns an Item with an   *)
(* empty title, and no error, for a payload whose title is empty.          *)
(***************************************************************************)
C9_TitleRequiredByHeuristicOnly ==
  /\ HeuristicDone =>
       /\ err # NoErr <=> HeuristicTitle(doc) = <<>>
       /\ item = Nil <=> err # NoErr
       /\ item # Nil => item.Title # <<>>
  /\ (Mapped /\ data.Title = <<>>) => (err = NoErr /\ item.Title = <<>>)

\* A page with a blank heading and a title tag that holds the suffix only: the
\* heuristic extractor has returned the error.
C9_Witness ==
  /\ HeuristicDone
  /\ \E j \in 1..Len(doc) : doc[j].tag = "h1"
  /\ \E j \in 1..Len(doc) : doc[j].tag = "title" /\ doc[j].text = Suffix
  /\ item = Nil
  /\ err = <<"item title not found - page structure may have changed">>

(***************************************************************************)
(* C10.  An Item the heuristic extractor returns for a page whose text     *)
(* holds a cancellation keyword is Canceled, with or without a bid control *)
(* and with or without a finished keyword.                                 *)
(***************************************************************************)
C10_CancelKeywordWins ==
  (HeuristicDone /\ item # Nil
     /\ (\/ Contains(ToLower(DocText(doc)), K_cancel)
         \/ Contains(ToLower(DocText(doc)), K_torikeshi)))
    => item.Status = StatusCanceled

\* A page with a cancellation keyword, a finished keyword and a bid button.
C10_Witness ==
  /\ HeuristicDone
  /\ item # Nil
  /\ Contains(DocText(doc), K_cancel)
  /\ \E k \in 1..Len(finishedKeywords) : Contains(DocText(doc), finishedKeywords[k])
  /\ HasBidControl(doc)
  /\ item.Status = StatusCanceled


\* The page has a button or link whose text speaks of bidding.
BidAffordance(d) ==
  \E j \in 1..Len(d) :
    d[j].tag \in {"button", "a"} /\ Contains(ToLower(NodeText(d, j)), K_bid)

\* The text of the page holds one of the finished keywords.
FinishedKeywordIn(d) ==
  \E k \in 1..Len(finishedKeywords) : Contains(ToLower(DocText(d)), ToLower(finishedKeywords[k]))

CancelKeywordIn(d) ==
  Contains(ToLower(DocText(d)), K_cancel) \/ Contains(ToLower(DocText(d)), K_torikeshi)

(***************************************************************************)
(* C11.  An Item the heuristic extractor returns is never Unspecified;     *)
(* for a page without a cancellation keyword it is Active when a bid       *)
(* control is present, finished keywords or not, Finished when no bid      *)
(* control is present and a finished keyword occurs, and Active otherwise. *)
(***************************************************************************)
C11_StatusWithoutCancel ==
  (HeuristicDone /\ item # Nil) =>
    /\ item.Status # StatusUnspecified
    /\ ~CancelKeywordIn(doc) =>
         item.Status = IF BidAffordance(doc) THEN StatusActive
                       ELSE IF FinishedKeywordIn(doc) THEN StatusFinished
                       ELSE StatusActive

\* A page with a finished keyword and a bid button, and no cancellation keyword.
C11_Witness ==
  /\ HeuristicDone
  /\ item # Nil
  /\ ~CancelKeywordIn(doc)
  /\ FinishedKeywordIn(doc)
  /\ \E j \in 1..Len(doc) : doc[j].tag = "button" /\ doc[j].text = X_bidNow
  /\ item.Status = StatusActive


\* A call of one of the price and count normalizers has returned.
NormalizerDone == pc = "done" /\ op \in {"parsePrice", "common.parsePrice", "common.parseCount"}

\* The text holds a no-charge keyword, in any case of its letters.
NoChargeIn(s) == Contains(ToLower(s), K_muryo) \/ Contains(ToLower(s), K_free)

(***************************************************************************)
(* C12.  As claimed: each price and count normalizer of the item and       *)
(* category extractors returns 0 for a text that holds a no-charge         *)
(* keyword, whatever digits the text also holds, 1000 for "1,000" followed *)
(* by the yen sign, and 0 for the empty text.                              *)
(***************************************************************************)
C12_NoChargeIsZero ==
  NormalizerDone =>
    /\ NoChargeIn(str) => price = 0
    /\ str = X_1000yen => price = 1000
    /\ str = <<>> => price = 0


\* extractCategoryItems has returned.
ListingDone == pc = "done" /\ op = "extractCategoryItems"

\* The listing-row blocks of a listing page, and the i-th of them in document order.
RowBlocks(d) == {j \in 1..Len(d) : d[j].tag = "li" /\ d[j].class = C_Product}

NthRow(d, i) == CHOOSE j \in RowBlocks(d) : Cardinality({x \in RowBlocks(d) : x <= j}) = i

\* The title link and the image element of the row block r (each row has at most one).
RowLink(d, r) == {j \in Subtree(d, r) : d[j].tag = "a" /\ d[j].class = C_Product__titleLink}

RowImg(d, r) == {j \in Subtree(d, r) : d[j].tag = "img" /\ d[j].class = C_Product__imageData}

\* The image of an image element: its src, else its data-src.  With emptyIsNone
\* an empty src counts as no src.
ExpectedImage(n, emptyIsNone) ==
  IF "src" \in DOMAIN n.attr /\ (emptyIsNone => n.attr["src"] # <<>>) THEN n.attr["src"]
  ELSE IF "data-src" \in DOMAIN n.attr THEN n.attr["data-src"]
  ELSE <<>>

\* The item it is the item of the row block r.
ItemOfRow(d, r, it, emptyIsNone) ==
  /\ it.AuctionID = (IF \E j \in RowLink(d, r) : "data-auction-id" \in DOMAIN d[j].attr
                     THEN d[CHOOSE j \in RowLink(d, r) : TRUE].attr["data-auction-id"]
                     ELSE <<>>)
  /\ it.Title = (IF RowLink(d, r) = {} THEN <<>>
                 ELSE TrimSpace(d[CHOOSE j \in RowLink(d, r) : TRUE].text))
  /\ it.Image = (IF RowImg(d, r) = {} THEN <<>>
                 ELSE ExpectedImage(d[CHOOSE j \in RowImg(d, r) : TRUE], emptyIsNone))

(***************************************************************************)
(* C13.  As claimed: extractCategoryItems returns one CategoryItem per     *)
(* listing-row block, in document order; the i-th item has the auction ID  *)
(* of the data-auction-id attribute of the i-th row's title link, the      *)
(* trimmed text of that link as its title, and as its image the src of the *)
(* row image, or its data-src when src supplies no URL (an empty src       *)
(* supplies none).                                                         *)
(***************************************************************************)
C13_ImageFromSrcElseLazy ==
  ListingDone =>
    /\ err = NoErr
    /\ Len(page.Items) = Cardinality(RowBlocks(doc))
    /\ \A i \in 1..Len(page.Items) : ItemOfRow(doc, NthRow(doc, i), page.Items[i], TRUE)

(***************************************************************************)
(* C13, amended.  extractCategoryItems returns one CategoryItem per        *)
(* listing-row block, in document order; the i-th item has the auction ID  *)
(* and the trimmed text of the i-th row's title link, and as its image the *)
(* src of the row image whenever that attribute exists, empty or not, and  *)
(* its data-src only when the image has no src attribute.                  *)
(***************************************************************************)
C13_OneItemPerRow ==
  ListingDone =>
    /\ err = NoErr
    /\ Len(page.Items) = Cardinality(RowBlocks(doc))
    /\ \A i \in 1..Len(page.Items) : ItemOfRow(doc, NthRow(doc, i), page.Items[i], FALSE)

\* A page of two rows: an image with an empty src and a data-src, then an image
\* with data-src alone.
C13_Witness ==
  /\ ListingDone
  /\ Len(page.Items) = 2
  /\ \E j \in RowImg(doc, NthRow(doc, 1)) :
       doc[j].attr = [a \in {"src", "data-src"} |-> IF a = "src" THEN <<>> ELSE U_img2]
  /\ page.Items[1].AuctionID = A_id3 /\ page.Items[1].Image = <<>>
  /\ page.Items[2].AuctionID = A_id2 /\ page.Items[2].Image = U_img2
  /\ page.Items[2].Title = X_item2


\* The price slots of the row block r, and the k-th of them in document order.
SlotsOf(d, r) == {j \in Subtree(d, r) : d[j].tag = "span" /\ d[j].class = C_Product__price}

NthSlot(d, r, k) == CHOOSE j \in SlotsOf(d, r) : Cardinality({x \in SlotsOf(d, r) : x <= j}) = k

\* The value text of the price slot at node j: the text of its value element.
SlotValue(d, j) == d[j + 1].text

(***************************************************************************)
(* C14.  For every listing row, currentPrice is the normalized value of    *)
(* the first price slot (0 for a row without a slot); immediatePrice is    *)
(* the normalized value of the second slot when the row has a second slot  *)
(* and 0 when it has not; slots after the second change neither field.     *)
(***************************************************************************)
C14_PriceSlots ==
  ListingDone =>
    \A i \in 1..Len(page.Items) :
      LET r == NthRow(doc, i)
          n == Cardinality(SlotsOf(doc, r))
      IN  /\ page.Items[i].CurrentPrice =
               (IF n >= 1 THEN common_parsePrice(SlotValue(doc, NthSlot(doc, r, 1))) ELSE 0)
          /\ page.Items[i].ImmediatePrice =
               (IF n >= 2 THEN common_parsePrice(SlotValue(doc, NthSlot(doc, r, 2))) ELSE 0)

\* A row of three slots (1,000, 2,000 and 22,000 yen) followed by a row of one slot.
C14_Witness ==
  /\ ListingDone
  /\ Len(page.Items) = 2
  /\ Cardinality(SlotsOf(doc, NthRow(doc, 1))) = 3
  /\ SlotValue(doc, NthSlot(doc, NthRow(doc, 1), 3)) = X_price
  /\ page.Items[1].CurrentPrice = 1000 /\ page.Items[1].ImmediatePrice = 2000
  /\ Cardinality(SlotsOf(doc, NthRow(doc, 2))) = 1
  /\ page.Items[2].CurrentPrice = 500 /\ page.Items[2].ImmediatePrice = 0


\* The fixed page size of the listing.
PageSize == 50

(***************************************************************************)
(* C15.  For every listing page hasNext is true exactly when the number of *)
(* rows extracted, which is the number of row blocks of the page, is at    *)
(* least the page size of 50, whatever totalCount is.                      *)
(***************************************************************************)
C15_HasNextIffFullPage ==
  ListingDone =>
    /\ page.HasNext <=> Len(page.Items) >= PageSize
    /\ page.HasNext <=> Cardinality(RowBlocks(doc)) >= PageSize

\* A page of exactly 50 rows without a total count.
C15_Witness ==
  /\ ListingDone
  /\ Cardinality(RowBlocks(doc)) = PageSize
  /\ page.TotalCount = 0
  /\ page.HasNext


\* The total-count region of a page: the count text of the current tab of the
\* result header.
CountRegion(d) ==
  {j \in 1..Len(d) :
     /\ d[j].class = C_Tab__subText
     /\ \E a \in Ancestors(d, j) : d[a].tag = "li" /\ d[a].class = C_Tab__current
     /\ \E a \in Ancestors(d, j) : d[a].class = C_Result__header}

\* The nodes of the page inside a listing-row block.
InRows(d) == UNION {Subtree(d, r) : r \in RowBlocks(d)}

\* The page without the nodes of the set drop.
Outside(d, drop) ==
  [i \in 1..(Len(d) - Cardinality(drop \cap (1..Len(d)))) |->
     d[CHOOSE j \in (1..Len(d)) \ drop :
         Cardinality({x \in (1..Len(d)) \ drop : x < j}) = i - 1]]

\* The page with the listing rows replaced by rows (the list ends the page).
WithRows(d, rows) == Outside(d, InRows(d)) \o rows

(***************************************************************************)
(* C16.  totalCount of a listing page is the count-normalized text of the  *)
(* total-count region ("1,234" followed by the counter gives 1234) and 0   *)
(* for a page without the region; it is the same whatever rows the page    *)
(* holds: with the rows removed, or replaced by other rows, totalCount is  *)
(* unchanged.                                                              *)
(***************************************************************************)
C16_TotalCountIgnoresRows ==
  ListingDone =>
    /\ page.TotalCount = parseCount(Text(doc, CountRegion(doc)))
    /\ Text(doc, CountRegion(doc)) = X_1234ken => page.TotalCount = 1234
    /\ CountRegion(doc) = {} => page.TotalCount = 0
    /\ RowBlocks(doc) # {} =>
         \A rows \in RowLists(1) \cup {Row_odd \o Row_three} :
           extractCategoryItems(WithRows(doc, rows)).page.TotalCount = page.TotalCount

\* A page with the count 1,234 whose one row holds a count text of its own.
C16_Witness ==
  /\ ListingDone
  /\ Text(doc, CountRegion(doc)) = X_1234ken
  /\ \E j \in InRows(doc) : doc[j].class = C_Tab__subText /\ doc[j].text = X_99ken
  /\ Len(page.Items) = 1
  /\ page.TotalCount = 1234


(***************************************************************************)
(* C17: when the use case returns an error, AuctionHandler.GetAuction      *)
(* returns no response and a Connect error whose code is CodeNotFound, and *)
(* AuctionHandler.GetCategoryItems returns no response and a Connect error *)
(* whose code is CodeInternal; the error carried is the use case's, and    *)
(* the code is the same for every cause (request not built, no response,   *)
(* status other than 200, unreadable body, payload missing or not          *)
(* decodable, an error of a test double).                                  *)
(***************************************************************************)
HandlerDone(name) == pc = "done" /\ op = name

FixedCode(name) ==
  IF name = "AuctionHandler.GetAuction" THEN "CodeNotFound" ELSE "CodeInternal"

C17_UsecaseErrorHasFixedCode ==
  \A name \in {"AuctionHandler.GetAuction", "AuctionHandler.GetCategoryItems"} :
    (HandlerDone(name) /\ err # NoErr) =>
      /\ resp = Nil
      /\ connectErr = [code |-> FixedCode(name), err |-> err]

\* GetAuction answered from a page whose payload is missing.
C17_Witness ==
  /\ HandlerDone("AuctionHandler.GetAuction")
  /\ backend.kind = "response" /\ backend.status = 200 /\ backend.body.read
  /\ err = <<"failed to extract item info", "failed to parse next data", "next data script not found">>
  /\ resp = Nil
  /\ connectErr.code = "CodeNotFound"

(***************************************************************************)
(* C18: when the use case returns an item, the response of                 *)
(* AuctionHandler.GetAuction has the item's auction id, title, current     *)
(* price, status, images in order and description; it has an               *)
(* AuctionInformation exactly when the item has one, with the same start   *)
(* price, early end, auto extension, returnable and returnable detail; the *)
(* start time (the end time) is present exactly when the item's time is    *)
(* not the zero time, and is then the same instant.                        *)
(***************************************************************************)
\* The instant of a protobuf timestamp is the instant t denotes.
SameInstant(ts, t) ==
  /\ ts.nanos = 0
  /\ (ts.seconds \div 60) + Minutes(UnixEpoch) = Minutes(t)
  /\ ts.seconds % 60 = t.sec

TimeMapped(ts, t) ==
  /\ (ts # Nil) <=> ~IsZero(t)
  /\ ts # Nil => SameInstant(ts, t)

C18_GetAuctionMapping ==
  (HandlerDone("AuctionHandler.GetAuction") /\ err = NoErr) =>
    /\ connectErr = Nil
    /\ resp.AuctionId = item.AuctionID
    /\ resp.Title = item.Title
    /\ resp.CurrentPrice = item.CurrentPrice
    /\ resp.Status.number = StatusNumber(item.Status)
    /\ resp.Images = item.Images
    /\ resp.Description = item.Description
    /\ (resp.AuctionInformation # Nil) <=> (item.AuctionInfo # Nil)
    /\ item.AuctionInfo # Nil =>
         /\ resp.AuctionInformation.StartPrice = item.AuctionInfo.StartPrice
         /\ resp.AuctionInformation.EarlyEnd = item.AuctionInfo.EarlyEnd
         /\ resp.AuctionInformation.AutoExtension = item.AuctionInfo.AutoExtension
         /\ resp.AuctionInformation.Returnable = item.AuctionInfo.Returnable
         /\ resp.AuctionInformation.ReturnableDetail = item.AuctionInfo.ReturnableDetail
         /\ TimeMapped(resp.AuctionInformation.StartTime, item.AuctionInfo.StartTime)
         /\ TimeMapped(resp.AuctionInformation.EndTime, item.AuctionInfo.EndTime)

\* An item that starts at 2025-12-29T16:00:10+09:00 and has no end time.
C18_Witness ==
  /\ HandlerDone("AuctionHandler.GetAuction") /\ err = NoErr
  /\ item.AuctionInfo # Nil
  /\ item.AuctionInfo.StartTime = TimeFromJSON(T_start)
  /\ IsZero(item.AuctionInfo.EndTime)
  /\ Len(item.Images) = 2
  /\ resp.AuctionInformation.StartTime = [seconds |-> 1766991610, nanos |-> 0]
  /\ resp.AuctionInformation.EndTime = Nil

\* An item without auction information.
C18_WitnessNoInfo ==
  /\ HandlerDone("AuctionHandler.GetAuction") /\ err = NoErr
  /\ item.AuctionInfo = Nil
  /\ resp.AuctionInformation = Nil

(***************************************************************************)
(* C19: when the use case returns a page, the response of                  *)
(* AuctionHandler.GetCategoryItems has one item for each item of the page, *)
(* in the same order, with the same auction id, title, current price,      *)
(* immediate price (0 when there is none), bid count and image, and the    *)
(* total count of the page.                                                *)
(***************************************************************************)
ScalarsMapped(r, it) ==
  /\ r.AuctionId = it.AuctionID
  /\ r.Title = it.Title
  /\ r.CurrentPrice = it.CurrentPrice
  /\ r.ImmediatePrice = it.ImmediatePrice
  /\ r.BidCount = it.BidCount

C19_CategoryItemsMapping ==
  (HandlerDone("AuctionHandler.GetCategoryItems") /\ err = NoErr) =>
    /\ connectErr = Nil
    /\ resp.TotalCount = page.TotalCount
    /\ Len(resp.Items) = Len(page.Items)
    /\ \A i \in 1..Len(page.Items) :
         /\ ScalarsMapped(resp.Items[i], page.Items[i])
         /\ resp.Items[i].Image = page.Items[i].Image

\* Everything the claim lists but the image is mapped.
C19_AllButImage ==
  (HandlerDone("AuctionHandler.GetCategoryItems") /\ err = NoErr) =>
    /\ connectErr = Nil
    /\ resp.TotalCount = page.TotalCount
    /\ Len(resp.Items) = Len(page.Items)
    /\ \A i \in 1..Len(page.Items) :
         /\ ScalarsMapped(resp.Items[i], page.Items[i])
         /\ resp.Items[i].Image = <<>>

(***************************************************************************)
(* C20: AuctionUsecase.GetAuction and CategoryUsecase.GetCategoryItems     *)
(* call their repository exactly once, with the arguments they were called *)
(* with, and return the result and the error of the repository as they     *)
(* are: the error is not wrapped, and a result that comes with an error is *)
(* not dropped.                                                            *)
(***************************************************************************)
UsecaseDone(name) == pc = "done" /\ op = name

C20_UsecasePassThrough ==
  /\ UsecaseDone("AuctionUsecase.GetAuction") =>
       /\ repoCalls = <<[method |-> "FetchByID", auctionID |-> auctionID]>>
       /\ item = ItemRepository_FetchByID(backend, auctionID).item
       /\ err = ItemRepository_FetchByID(backend, auctionID).err
  /\ UsecaseDone("CategoryUsecase.GetCategoryItems") =>
       /\ repoCalls = <<[method |-> "FetchByCategory", categoryID |-> categoryID,
                         page |-> pageNo]>>
       /\ page = CategoryItemRepository_FetchByCategory(backend, categoryID, pageNo).page
       /\ err = CategoryItemRepository_FetchByCategory(backend, categoryID, pageNo).err

\* A repository that returns both an item and an error.
C20_Witness ==
  /\ UsecaseDone("AuctionUsecase.GetAuction")
  /\ backend.kind = "fake" /\ backend.item # Nil /\ backend.err = <<"repo error">>
  /\ item = backend.item /\ err = <<"repo error">>
  /\ Len(repoCalls) = 1

(***************************************************************************)
(* C21.  As claimed: every Item an extraction returns, from the payload or *)
(* from the heuristics, has a current price and a shipping fee that are    *)
(* not negative, and auction information whose start price is not          *)
(* negative, whatever the document holds.                                  *)
(***************************************************************************)
ExtractedItem ==
  /\ pc = "done"
  /\ op \in {"extractItemFromJSON", "extractItemInfo", "HeuristicExtractItemInfo", "FetchByID"}
  /\ err = NoErr

C21_AmountsNonNegative ==
  ExtractedItem =>
    /\ item.CurrentPrice >= 0
    /\ item.ShippingFee >= 0
    /\ item.AuctionInfo.StartPrice >= 0

\* What the code has: the heuristics never give a negative amount, and the mapper
\* gives a negative amount only when it copies one from the payload.
C21_NegativeOnlyFromPayload ==
  ExtractedItem =>
    /\ item.ShippingFee >= 0
    /\ op = "HeuristicExtractItemInfo" =>
         item.CurrentPrice >= 0 /\ item.AuctionInfo.StartPrice >= 0
    /\ (op = "extractItemFromJSON" /\ item.CurrentPrice < 0) =>
         data.TaxinPrice <= 0 /\ data.Price = item.CurrentPrice
    /\ (op = "extractItemFromJSON" /\ item.AuctionInfo.StartPrice < 0) =>
         data.TaxinStartPrice <= 0 /\ data.InitPrice = item.AuctionInfo.StartPrice

(***************************************************************************)
(* C22.  Extraction calls that run at the same time on the same scraper    *)
(* instances do not affect each other: under every interleaving of their  *)
(* steps, the locals of each call are what its own document and auction id *)
(* make them at the point it has reached, the result of each call is the   *)
(* result of the same call run alone, and the scraper instances are never  *)
(* modified.                                                               *)
(***************************************************************************)
\* The locals l are those of a call run alone on l.doc and l.id, at the point l.pc.
AsAlone(l) ==
  CASE l.kind = "extractItemInfo" /\ l.pc = "parseNextData" ->
         l = StartItemInfo(l.doc, l.id)
    [] l.kind = "extractItemInfo" /\ l.pc = "extractItemFromJSON" ->
         /\ parseNextData(l.doc).err = NoErr
         /\ l = [StartItemInfo(l.doc, l.id) EXCEPT !.pc = "extractItemFromJSON",
                                                   !.nextData = parseNextData(l.doc).data]
    [] l.kind = "extractItemInfo" /\ l.pc = "done" ->
         /\ l.item = extractItemInfo(l.doc, l.id).item
         /\ l.err = extractItemInfo(l.doc, l.id).err
         /\ l.items = <<>> /\ l.page = Nil
    [] l.kind = "extractCategoryItems" /\ l.pc = "Each" ->
         /\ l.row <= Len(extractCategoryItems(l.doc).page.Items)
         /\ l = [StartCategoryItems(l.doc) EXCEPT
                   !.row = l.row,
                   !.items = SubSeq(extractCategoryItems(l.doc).page.Items, 1, l.row)]
    [] l.kind = "extractCategoryItems" /\ l.pc = "done" ->
         /\ l.page = extractCategoryItems(l.doc).page
         /\ l.err = extractCategoryItems(l.doc).err
         /\ l.item = Nil /\ l.nextData = Nil
    [] OTHER -> FALSE

C22_CallsIndependent ==
  /\ scraper = Scrapers
  /\ \A c \in Calls : inflight[c] # Free => AsAlone(inflight[c])

\* Call 1 has the page of its two rows while call 2 is between the two rows of
\* another page.
C22_Witness ==
  /\ inflight[1].pc = "done" /\ inflight[1].kind = "extractCategoryItems"
  /\ Len(inflight[1].page.Items) = 2
  /\ inflight[2].pc = "Each" /\ inflight[2].row = 1 /\ RowsLeft(inflight[2])
  /\ inflight[2].doc # inflight[1].doc
  /\ inflight[2].items # SubSeq(inflight[1].page.Items, 1, 1)

(***************************************************************************)
(* C23.  As claimed: each price and count normalizer returns a number for  *)
(* every text, never a negative one; for a text without a no-charge        *)
(* keyword the number is the value of the first run of digits and commas   *)
(* with the commas removed, whatever digits follow that run, and 0 when    *)
(* the text has no such run or the run is not a signed 64-bit integer (too *)
(* large, or commas only).                                                 *)
(***************************************************************************)
\* The first maximal run of digits and commas of s, without its commas.
FirstRunDigits(s) ==
  LET in(i)  == s[i] \in Digits \cup {","}
      starts == {i \in 1..Len(s) : in(i)}
      from   == CHOOSE i \in starts : \A x \in starts : i <= x
      run    == {i \in from..Len(s) : \A x \in from..i : in(x)}
  IN  IF starts = {} THEN <<>>
      ELSE SelectSeq([i \in 1..Cardinality(run) |-> s[from + i - 1]], LAMBDA c : c # ",")

FirstRunValue(s) ==
  IF ParseInt(FirstRunDigits(s)).ok THEN ParseInt(FirstRunDigits(s)).v ELSE 0

C23_FirstRunOnly ==
  NormalizerDone =>
    /\ price >= 0
    /\ ~NoChargeIn(str) => price = FirstRunValue(str)

\* What the code has: the normalizer of the item scraper is as claimed; the one
\* of the category scraper joins every run of digits, and gives the largest
\* 64-bit integer when the joined digits are too large.
C23_ItemNormalizerOnly ==
  NormalizerDone =>
    /\ price >= 0
    /\ (op = "parsePrice" /\ ~NoChargeIn(str)) => price = FirstRunValue(str)
    /\ op # "parsePrice" =>
         price = IF JoinDigitRuns(str) = <<>> THEN 0
                 ELSE IF ParseInt(JoinDigitRuns(str)).ok THEN ParseInt(JoinDigitRuns(str)).v
                 ELSE MaxInt64

(***************************************************************************)
(* C24.  A call of FetchByID or FetchByCategory sends at most one request; *)
(* when the fetch fails (the request cannot be built, there is no          *)
(* response, the status is not 200, the body cannot be read) the call      *)
(* returns an error and no result and runs no extraction step; the error   *)
(* of a failed fetch is never the error of a failed extraction.            *)
(***************************************************************************)
FetchDone == pc = "done" /\ op \in {"FetchByID", "FetchByCategory"}

\* The answer behind the call makes fetchHTML fail.
FetchFails(h) == h.kind # "response" \/ h.status # 200 \/ ~h.body.read

\* The call got as far as fetchHTML.
Fetching == op = "FetchByID" \/ ~InvalidEscape(categoryID)

FetchErrors ==
  {<<"failed to create request", "net/http: invalid request">>,
   <<"failed to fetch page", "connection refused">>,
   <<"failed to fetch page: status 404">>, <<"failed to fetch page: status 500">>,
   <<"failed to parse HTML", "unexpected EOF">>}

IsExtractError(e) == e # NoErr /\ e[1] = "failed to extract item info"

C24_FetchFailureIsFatal ==
  FetchDone =>
    /\ Len(requests) <= 1
    /\ (Fetching /\ FetchFails(backend)) =>
         /\ err \in FetchErrors /\ ~IsExtractError(err)
         /\ item = Nil /\ page = Nil
         /\ calls = <<"fetchHTML">>
    /\ (Fetching /\ ~FetchFails(backend)) =>
         /\ err \notin FetchErrors
         /\ Len(requests) = 1
         /\ err # NoErr => IsExtractError(err)

\* The answer has status 500.
C24_Witness ==
  /\ FetchDone /\ op = "FetchByID"
  /\ backend.kind = "response" /\ backend.status = 500
  /\ err = <<"failed to fetch page: status 500">>
  /\ Len(requests) = 1 /\ item = Nil /\ calls = <<"fetchHTML">>

\* The page was fetched and its extraction failed.
C24_WitnessExtraction ==
  /\ FetchDone /\ op = "FetchByID" /\ ~FetchFails(backend)
  /\ IsExtractError(err) /\ item = Nil

(***************************************************************************)
(* C25.  The current price of an Item the heuristic extractor returns is   *)
(* the normalized text of the first of its four strategies, in the order   *)
(* selector candidates, label-and-amount pattern over the page text,       *)
(* element scan, line scan, that gives a text that is not empty; a later   *)
(* strategy counts only when every earlier one gave the empty text.  The   *)
(* element scan gives the text of the first element, in document order,    *)
(* whose text holds the current-price label, the yen sign and a digit.     *)
(***************************************************************************)
\* The text of the first element in document order that looks like a price.
FirstPriceElement(d) ==
  IF \E j \in 1..Len(d) : LooksLikePrice(TrimSpace(NodeText(d, j)))
  THEN TrimSpace(NodeText(d, CHOOSE j \in 1..Len(d) :
                                /\ LooksLikePrice(TrimSpace(NodeText(d, j)))
                                /\ \A x \in 1..(j - 1) : ~LooksLikePrice(TrimSpace(NodeText(d, x)))))
  ELSE <<>>

Strategies(d) ==
  <<PriceBySelector(d), PriceByPattern(d), FirstPriceElement(d), PriceByLineScan(d)>>

FirstNonEmpty(texts) ==
  IF \A i \in 1..Len(texts) : texts[i] = <<>> THEN <<>>
  ELSE texts[CHOOSE i \in 1..Len(texts) :
               texts[i] # <<>> /\ \A x \in 1..(i - 1) : texts[x] = <<>>]

HeuristicReturned == pc = "done" /\ op = "HeuristicExtractItemInfo" /\ err = NoErr

C25_PriceStrategiesInOrder ==
  HeuristicReturned => item.CurrentPrice = parsePrice(FirstNonEmpty(Strategies(doc)))

\* No selector candidate and no pattern match; two elements look like a price,
\* the page as a whole (whose first digits are those of "No.7") and the
\* paragraph that names the price 1,500.
C25_Witness ==
  /\ HeuristicReturned
  /\ PriceBySelector(doc) = <<>> /\ PriceByPattern(doc) = <<>>
  /\ Cardinality({j \in 1..Len(doc) : LooksLikePrice(TrimSpace(NodeText(doc, j)))}) > 1
  /\ parsePrice(PriceByElementScan_last(doc)) = 1500
  /\ item.CurrentPrice = 7

\* A selector candidate and a pattern match that name different prices.
C25_WitnessSelectorFirst ==
  /\ HeuristicReturned
  /\ PriceBySelector(doc) = X_price /\ PriceByPattern(doc) = X_current500
  /\ item.CurrentPrice = 22000

(***************************************************************************)
(* C26.  As claimed: the images of an Item the heuristic extractor returns *)
(* come from one source, the first selector candidate in list order that   *)
(* yields a URL, or the scan of all images when no candidate yields any;   *)
(* the list has no URL twice, is in first-seen order and has no URL that   *)
(* isThumbnailImage classifies as a thumbnail; the images of the scan of   *)
(* all images are URLs of the known image hosts only and none of them      *)
(* contains logo, icon or avatar.                                          *)
(***************************************************************************)
\* The URLs of the k-th selector candidate.
Candidate(d, k) == CollectImages(d, {j \in 1..Len(d) : ImageSelector(k, d, j)}, 1, <<>>)

\* No selector candidate yields a URL.
NoCandidate(d) == \A k \in 1..NumImageSelectors : Candidate(d, k) = <<>>

\* The nodes of the source the images come from.
SourceNodes(d) ==
  IF NoCandidate(d) THEN {j \in 1..Len(d) : d[j].tag = "img"}
  ELSE {j \in 1..Len(d) :
          ImageSelector(CHOOSE k \in 1..NumImageSelectors :
                          Candidate(d, k) # <<>> /\ \A x \in 1..(k - 1) : Candidate(d, x) = <<>>,
                        d, j)}

\* The URL of the image element j, made absolute.
URLOf(d, j) == AbsoluteURL(TrimSpace(ImageAttr(d[j])))

\* Where the URL u is first seen among the nodes of the source.
FirstSeen(d, u) == Min({j \in SourceNodes(d) : URLOf(d, j) = u})

OneSourceInOrder(d, imgs) ==
  /\ \A i \in 1..Len(imgs) : \E j \in SourceNodes(d) : URLOf(d, j) = imgs[i]
  /\ \A i, j \in 1..Len(imgs) : i < j => FirstSeen(d, imgs[i]) < FirstSeen(d, imgs[j])
  /\ \A i \in 1..Len(imgs) : ~isThumbnailImage(imgs[i])
  /\ \A j \in SourceNodes(d) :
       (URLOf(d, j) # <<>> /\ ~isThumbnailImage(URLOf(d, j)) /\ ~NoCandidate(d)) =>
         \E i \in 1..Len(imgs) : imgs[i] = URLOf(d, j)

NoLogoIconAvatar(u) ==
  /\ ~Contains(u, <<"l", "o", "g", "o">>) /\ ~Contains(u, <<"i", "c", "o", "n">>)
  /\ ~Contains(u, <<"a", "v", "a", "t", "a", "r">>)

\* The host of an absolute URL: what lies between the scheme and the path.
HostOf(u) ==
  LET rest == IF HasPrefix(u, <<"h", "t", "t", "p", "s", ":", "/", "/">>) THEN SubSeq(u, 9, Len(u))
              ELSE IF HasPrefix(u, <<"h", "t", "t", "p", ":", "/", "/">>) THEN SubSeq(u, 8, Len(u))
              ELSE u
  IN  SubSeq(rest, 1, SkipUntil(rest, 1, {"/"}) - 1)

K_yahoo == <<"y", "a", "h", "o", "o", ".", "c", "o", ".", "j", "p">>

\* The URL is on the image host, or on a host of the source's own domain.
OnKnownHost(u) == HostOf(u) = ImageHost \/ HasSuffix(HostOf(u), K_yahoo)

C26_ImagesFromOneSource ==
  HeuristicReturned =>
    /\ OneSourceInOrder(doc, item.Images)
    /\ NoCandidate(doc) =>
         \A i \in 1..Len(item.Images) :
           OnKnownHost(item.Images[i]) /\ NoLogoIconAvatar(item.Images[i])

\* What the code has: an image of the scan of all images is one whose URL
\* contains the name of the image host or of the source's domain, anywhere.
C26_HostNamedAnywhere ==
  HeuristicReturned =>
    /\ OneSourceInOrder(doc, item.Images)
    /\ NoCandidate(doc) =>
         \A i \in 1..Len(item.Images) :
           /\ Contains(item.Images[i], ImageHost) \/ Contains(item.Images[i], K_yahoo)
           /\ NoLogoIconAvatar(item.Images[i])

(***************************************************************************)
(* C27.  As claimed: the regular-expression pass of extractAuctionInformation *)
(* changes only the fields the table pass left unset.  A field to which a  *)
(* table row assigned a value, a start price of 0 or a flag of false       *)
(* included, has the same value after the regular-expression pass as after *)
(* the table pass.                                                         *)
(***************************************************************************)
RowLabel(d, tr) == TrimSpace(Text(d, First({j \in Subtree(d, tr) \ {tr} : d[j].tag = "th"})))

RowValue(d, tr) == TrimSpace(Text(d, First({j \in Subtree(d, tr) \ {tr} : d[j].tag = "td"})))

\* The rows of the table with a label and a value whose label contains l.
RowsLabelled(d, l) ==
  {tr \in TableRows(d, OtherInfoRegion(d)) :
     /\ \E j \in Subtree(d, tr) \ {tr} : d[j].tag = "th"
     /\ \E j \in Subtree(d, tr) \ {tr} : d[j].tag = "td"
     /\ RowLabel(d, tr) # <<>> /\ RowValue(d, tr) # <<>>
     /\ Contains(RowLabel(d, tr), l)}

\* The fields to which a row of the table assigned a value.
AssignedByTable(d) ==
     (IF RowsLabelled(d, L_startPrice) # {} THEN {"StartPrice"} ELSE {})
  \cup (IF \E tr \in RowsLabelled(d, L_startTime) : parseDateTime(RowValue(d, tr)).ok
        THEN {"StartTime"} ELSE {})
  \cup (IF \E tr \in RowsLabelled(d, L_endTime) : parseDateTime(RowValue(d, tr)).ok
        THEN {"EndTime"} ELSE {})
  \cup (IF RowsLabelled(d, L_earlyEnd) # {} THEN {"EarlyEnd"} ELSE {})
  \cup (IF RowsLabelled(d, L_autoExtension) # {} THEN {"AutoExtension"} ELSE {})
  \cup (IF RowsLabelled(d, L_returnable) # {} THEN {"Returnable", "ReturnableDetail"} ELSE {})

C27_RescueKeepsAssigned ==
  HeuristicReturned =>
    \A f \in AssignedByTable(doc) : item.AuctionInfo[f] = TablePass(doc, auctionID)[f]

\* The zero value of a field: what the regular-expression pass takes for unset.
IsZeroValue(f, v) ==
  CASE f = "StartPrice" -> v = 0
    [] f \in {"StartTime", "EndTime"} -> IsZero(v)
    [] f \in {"EarlyEnd", "AutoExtension"} -> v = FALSE
    [] f = "ReturnableDetail" -> v = <<>>
    [] OTHER -> FALSE

\* What the code has: the pass changes only fields whose value after the table
\* pass is the zero value (and returnable along with returnableDetail), whether
\* or not a row assigned it.
C27_RescueKeepsNonZero ==
  HeuristicReturned =>
    \A f \in {"AuctionID", "StartPrice", "StartTime", "EndTime", "EarlyEnd", "AutoExtension",
              "Returnable", "ReturnableDetail"} :
      LET v == TablePass(doc, auctionID)[f]
      IN  \/ item.AuctionInfo[f] = v
          \/ IsZeroValue(f, v)
          \/ f = "Returnable" /\ TablePass(doc, auctionID).ReturnableDetail = <<>>

(***************************************************************************)
(* C28.  On the heuristic path, when a returnable row of the table or a    *)
(* match of the returnable pattern is found, returnableDetail is the whole *)
(* value text of that entry, whether or not the text is affirmative;       *)
(* returnable is true exactly when that text contains the affirmative      *)
(* phrase, and is never true while returnableDetail is empty.              *)
(***************************************************************************)
\* The text of the region from index k on, up to the end of its line.
LineFrom(s, k) == SubSeq(s, k, Min({j \in k..Len(s) : s[j] = "\n"} \cup {Len(s) + 1}) - 1)

\* The value the pattern finds in the text of the region: what follows the first
\* occurrence of the label, blanks skipped, up to the end of the line.
ReturnableEntry(s) ==
  LET hits == {i \in 1..Len(s) : At(s, i, L_returnable)}
      k == SkipClass(s, Min(hits) + Len(L_returnable), ReSpace)
  IN  IF hits = {} THEN <<>> ELSE TrimSpace(LineFrom(s, k))

\* The value text of the returnable entry of the page: that of the last
\* returnable row of the table, else that of the pattern's match.
ReturnableValue(d) ==
  IF RowsLabelled(d, L_returnable) # {} THEN RowValue(d, Max(RowsLabelled(d, L_returnable)))
  ELSE ReturnableEntry(Text(d, OtherInfoRegion(d)))

C28_ReturnableDetailIsWholeText ==
  HeuristicReturned =>
    /\ item.AuctionInfo.ReturnableDetail = ReturnableValue(doc)
    /\ item.AuctionInfo.Returnable <=> Contains(ReturnableValue(doc), <<"返", "品", "可">>)
    /\ item.AuctionInfo.Returnable => item.AuctionInfo.ReturnableDetail # <<>>

\* A returnable row whose text is not affirmative: the text is kept whole.
C28_Witness ==
  /\ HeuristicReturned
  /\ RowsLabelled(doc, L_returnable) # {}
  /\ ~item.AuctionInfo.Returnable
  /\ item.AuctionInfo.ReturnableDetail = X_returnNG

\* No returnable row; the pattern finds an affirmative text on the next line.
C28_WitnessRescue ==
  /\ HeuristicReturned
  /\ RowsLabelled(doc, L_returnable) = {}
  /\ item.AuctionInfo.Returnable
  /\ item.AuctionInfo.ReturnableDetail = X_returnOK

(***************************************************************************)
(* C29.  As claimed: FetchByCategory takes page as a page number counted   *)
(* from 0 and, for every page p >= 0, large ones included, requests the    *)
(* offset b = 50 * p + 1 with the page size n = 50: the offset is positive *)
(* and the ranges of consecutive pages follow one another without overlap. *)
(***************************************************************************)
CategoryRequested == pc = "done" /\ op = "FetchByCategory" /\ requests # <<>>

\* The page numbers whose offset 50 * p + 1 is a value of the integer type.
OffsetFits(p) == p <= (MaxInt64 - 1) \div 50

C29_OffsetOfEveryPage ==
  CategoryRequested =>
    /\ OffsetFits(pageNo)
    /\ requests[1].query.b = ToString((50 * pageNo) + 1)
    /\ requests[1].query.n = "50"

\* What the code has: the offset is 50 * p + 1 for the pages where that fits
\* the integer type, and the sum wrapped around for the pages beyond.
C29_OffsetWhereItFits ==
  CategoryRequested =>
    /\ requests[1].query.n = "50"
    /\ OffsetFits(pageNo) =>
         /\ requests[1].query.b = ToString((50 * pageNo) + 1)
         /\ (50 * pageNo) + 1 > 0
         /\ pageNo > 0 => (50 * pageNo) + 1 = ((50 * (pageNo - 1)) + 1) + 50
    /\ ~OffsetFits(pageNo) =>
         /\ requests[1].query.b = ToString(AddInt64(MulInt64(50, pageNo), 1))
         /\ AddInt64(MulInt64(50, pageNo), 1) < 0

(***************************************************************************)
(* C30.  Every Item a detail extraction returns, on either path, has the   *)
(* auction id the caller gave, whatever the document holds, and an         *)
(* AuctionInformation that is not nil and carries the same auction id,     *)
(* also when the document has no detail information at all.                *)
(***************************************************************************)
C30_AuctionIDIsTheCallers ==
  ExtractedItem =>
    /\ item.AuctionID = auctionID
    /\ item.AuctionInfo # Nil
    /\ item.AuctionInfo.AuctionID = item.AuctionID

\* The page names another auction id in its table; the Item has the caller's.
C30_Witness ==
  /\ HeuristicReturned
  /\ \E j \in 1..Len(doc) : doc[j].tag = "td" /\ doc[j].text = X_otherID
  /\ item.AuctionID = auctionID
  /\ item.AuctionInfo.AuctionID = auctionID
  /\ item.AuctionInfo.StartPrice = 1000

\* A page with no region of detail information: every other field is unset.
C30_WitnessNoSignals ==
  /\ HeuristicReturned
  /\ OtherInfoRegion(doc) = {}
  /\ item.AuctionInfo = InfoZero(auctionID)

\* The payload path.
C30_WitnessJSON ==
  /\ pc = "done" /\ op = "extractItemInfo" /\ err = NoErr
  /\ calls = <<"parseNextData", "extractItemFromJSON">>
  /\ item.AuctionInfo.AuctionID = auctionID
====
